---- MODULE Spec2Model ----
(***************************************************************************)
(* A model of the Platypus scripting language: the lexer                   *)
(* (src/src/lexer/mod.rs), the recursive-descent parser                    *)
(* (src/src/parser/mod.rs) and the tree-walking interpreter                *)
(* (src/src/runtime/mod.rs, value.rs, builtins.rs), driven by the          *)
(* read-eval-print loop and the batch runner of src/src/main.rs.           *)
(*                                                                         *)
(* Encodings.  A Rust enum value is a record whose first field names the   *)
(* variant and whose other fields are the variant's payload; the payload   *)
(* fields of two variants never share a name.  Option<T> is a sequence of  *)
(* length 0 or 1.  HashMap<String, T> is a function whose domain is the    *)
(* set of keys.  Result<T, String> is a record with field err, the error   *)
(* message, "" meaning Ok.  An f64 is an exact fraction num/den.           *)
(***************************************************************************)
EXTENDS Integers, Sequences, FiniteSets, TLC

VARIABLES
    mode,        \* "run" (run_file), "repl" (run_repl), "parse" (parser harness) or "lex" (lexer harness)
    script,      \* key of the source text being fed, line by line
    pc,          \* index of the next line to read; 0 = process ended
    globals,     \* Interpreter.globals
    scopes,      \* Interpreter.scopes, innermost last
    in_context,  \* Interpreter.in_context
    stdout,      \* what print has written so far
    result,      \* outcome of the last line: [err, val]
    tokens,      \* Parser.tokens of the parser under check; the tokens the lexer has pushed
    parsed,      \* outcome of Parser::parse on tokens
    lexer        \* the Lexer of a tokenize under check

vars == <<mode, script, pc, globals, scopes, in_context, stdout, result, tokens, parsed, lexer>>

----------------------------------------------------------------------------
(* Option<T> *)

None == <<>>

Some(x) == <<x>>

IsSome(o) == Len(o) > 0

Unwrap(o) == o[1]

(* HashMap<String, T> *)

HashMap_new == [x \in {} |-> 0]

contains_key(m, k) == k \in DOMAIN m

insert(m, k, v) == [x \in DOMAIN m \cup {k} |-> IF x = k THEN v ELSE m[x]]

(* every entry of m2 inserted into m1 *)
extend(m1, m2) == [x \in DOMAIN m1 \cup DOMAIN m2 |-> IF x \in DOMAIN m2 THEN m2[x] ELSE m1[x]]

----------------------------------------------------------------------------
(* f64 as an exact fraction in lowest terms, den > 0 *)

RECURSIVE Gcd(_, _)
Gcd(a, b) == IF b = 0 THEN a ELSE Gcd(b, a % b)

Abs(a) == IF a < 0 THEN -a ELSE a

F64(num, den) ==
    LET s == IF den < 0 THEN -1 ELSE 1
        g == Gcd(Abs(num), Abs(den))
    IN  [num |-> (s * num) \div g, den |-> (s * den) \div g]

F64_int(k) == [num |-> k, den |-> 1]

F64_add(a, b) == F64(a.num * b.den + b.num * a.den, a.den * b.den)

F64_sub(a, b) == F64(a.num * b.den - b.num * a.den, a.den * b.den)

F64_mul(a, b) == F64(a.num * b.num, a.den * b.den)

(* b is not zero *)
F64_div(a, b) == F64(a.num * b.den, a.den * b.num)

F64_neg(a) == [num |-> -a.num, den |-> a.den]

F64_eq(a, b) == a.num = b.num /\ a.den = b.den

F64_lt(a, b) == a.num * b.den < b.num * a.den

F64_is_zero(a) == a.num = 0

----------------------------------------------------------------------------
(* Value, src/src/runtime/value.rs *)

Value_Number(n) == [t |-> "Number", n |-> n]

Value_String(s) == [t |-> "String", s |-> s]

Value_Boolean(b) == [t |-> "Boolean", b |-> b]

Value_Array(items) == [t |-> "Array", items |-> items]

Value_Function(params, body, closure) ==
    [t |-> "Function", params |-> params, stmts |-> body, closure |-> closure]

Value_Lambda(params, body, closure) ==
    [t |-> "Lambda", params |-> params, expr |-> body, closure |-> closure]

Value_NativeFunction(name, arity) == [t |-> "NativeFunction", name |-> name, arity |-> arity]

Value_Class(name, parent, methods, properties) ==
    [t |-> "Class", name |-> name, parent |-> parent, methods |-> methods,
     default_properties |-> properties]

Value_Object(class_name, properties) ==
    [t |-> "Object", class_name |-> class_name, properties |-> properties]

Value_Null == [t |-> "Null"]

type_name(v) ==
    CASE v.t = "Number" -> "Number"
      [] v.t = "String" -> "String"
      [] v.t = "Boolean" -> "Boolean"
      [] v.t = "Array" -> "Array"
      [] v.t = "Function" -> "Function"
      [] v.t = "Lambda" -> "Function"
      [] v.t = "NativeFunction" -> "Function"
      [] v.t = "Class" -> "Class"
      [] v.t = "Object" -> "Object"
      [] v.t = "Null" -> "Null"

is_truthy(v) ==
    CASE v.t = "Null" -> FALSE
      [] v.t = "Boolean" -> v.b
      [] v.t = "Number" -> ~F64_is_zero(v.n)
      [] v.t = "String" -> v.s # ""
      [] v.t = "Array" -> Len(v.items) # 0
      [] OTHER -> TRUE

(* str::parse::<f64> on the strings the scripts of this model contain: a    *)
(* single digit and the decimal texts below parse, every other string of    *)
(* the model is rejected.                                                   *)
parse_f64(s) ==
    IF \E d \in 0..9 : ToString(d) = s
    THEN Some(F64_int(CHOOSE d \in 0..9 : ToString(d) = s))
    ELSE CASE s = "0.0" -> Some(F64_int(0))
           [] s = "-0" -> Some(F64_int(0))
           [] s = "0.5" -> Some(F64(1, 2))
           [] s = "3.14" -> Some(F64(314, 100))
           [] OTHER -> None

(* Result<f64, String>: [err, n] *)
to_number(v) ==
    CASE v.t = "Number" -> [err |-> "", n |-> v.n]
      [] v.t = "String" ->
            IF IsSome(parse_f64(v.s))
            THEN [err |-> "", n |-> Unwrap(parse_f64(v.s))]
            ELSE [err |-> "Cannot convert '" \o v.s \o "' to number", n |-> F64_int(0)]
      [] v.t = "Boolean" -> [err |-> "", n |-> IF v.b THEN F64_int(1) ELSE F64_int(0)]
      [] OTHER -> [err |-> "Cannot convert " \o type_name(v) \o " to number", n |-> F64_int(0)]

RECURSIVE fraction_digits(_, _, _)
(* the decimal digits of rem/den after the point, at most `left` of them *)
fraction_digits(rem, den, left) ==
    IF rem = 0 \/ left = 0 THEN ""
    ELSE ToString((rem * 10) \div den) \o fraction_digits((rem * 10) % den, den, left - 1)

RECURSIVE Display(_)
RECURSIVE display_items(_, _)
display_items(arr, i) ==
    IF i > Len(arr) THEN ""
    ELSE (IF i > 1 THEN ", " ELSE "") \o Display(arr[i]) \o display_items(arr, i + 1)

(* impl fmt::Display for Value.  A fraction that is not integral is written *)
(* as its decimal expansion (exact when it terminates within 17 digits).    *)
Display(v) ==
    CASE v.t = "Number" ->
            IF v.n.den = 1 THEN ToString(v.n.num)
            ELSE (IF v.n.num < 0 THEN "-" ELSE "")
                 \o ToString(Abs(v.n.num) \div v.n.den) \o "."
                 \o fraction_digits(Abs(v.n.num) % v.n.den, v.n.den, 17)
      [] v.t = "String" -> v.s
      [] v.t = "Boolean" -> IF v.b THEN "true" ELSE "false"
      [] v.t = "Array" -> "[" \o display_items(v.items, 1) \o "]"
      [] v.t = "Function" -> "<function(" \o ToString(Len(v.params)) \o ")>"
      [] v.t = "Lambda" -> "<lambda(" \o ToString(Len(v.params)) \o ")>"
      [] v.t = "NativeFunction" ->
            "<native function " \o v.name \o "(" \o ToString(v.arity) \o ")>"
      [] v.t = "Class" -> "<class " \o v.name \o ">"
      [] v.t = "Object" -> "<" \o v.class_name \o " object>"
      [] v.t = "Null" -> "null"

----------------------------------------------------------------------------
(* The syntax tree, src/src/parser/ast.rs *)

Literal_Number(n) == [l |-> "Number", n |-> n]

Literal_String(s) == [l |-> "String", s |-> s]

Literal_Boolean(b) == [l |-> "Boolean", b |-> b]

Literal_Null == [l |-> "Null"]

Pattern_Literal(lit) == [p |-> "Literal", lit |-> lit]

Pattern_Identifier(id) == [p |-> "Identifier", id |-> id]

Pattern_Wildcard == [p |-> "Wildcard"]

MatchCase(pattern, body) == [pattern |-> pattern, body |-> body]

Expr_Literal(lit) == [e |-> "Literal", lit |-> lit]

Expr_Variable(name) == [e |-> "Variable", name |-> name]

Expr_Assign(name, value) == [e |-> "Assign", name |-> name, value |-> value]

Expr_PropertyAssign(object, property, value) ==
    [e |-> "PropertyAssign", object |-> object, property |-> property, value |-> value]

Expr_BinaryOp(left, operator, right) ==
    [e |-> "BinaryOp", left |-> left, operator |-> operator, right |-> right]

Expr_UnaryOp(operator, right) == [e |-> "UnaryOp", operator |-> operator, right |-> right]

Expr_FunctionCall(name, args) == [e |-> "FunctionCall", name |-> name, args |-> args]

Expr_Lambda(params, body) == [e |-> "Lambda", params |-> params, body |-> body]

Expr_Match(expr, cases) == [e |-> "Match", expr |-> expr, cases |-> cases]

Expr_Array(elements) == [e |-> "Array", elements |-> elements]

Expr_New(class_name, args) == [e |-> "New", class_name |-> class_name, args |-> args]

Expr_MethodCall(object, method, args) ==
    [e |-> "MethodCall", object |-> object, method |-> method, args |-> args]

Expr_PropertyAccess(object, property) ==
    [e |-> "PropertyAccess", object |-> object, property |-> property]

Stmt_VarDecl(name, value) == [s |-> "VarDecl", name |-> name, value |-> value]

Stmt_FuncDecl(name, params, return_type, body) ==
    [s |-> "FuncDecl", name |-> name, params |-> params, return_type |-> return_type,
     body |-> body]

Stmt_Return(value) == [s |-> "Return", value |-> value]

Stmt_Expr(expr) == [s |-> "Expr", expr |-> expr]

Stmt_If(condition, then_branch, else_branch) ==
    [s |-> "If", condition |-> condition, then_branch |-> then_branch,
     else_branch |-> else_branch]

Stmt_While(condition, body) == [s |-> "While", condition |-> condition, body |-> body]

Stmt_For(init, condition, increment, body) ==
    [s |-> "For", init |-> init, condition |-> condition, increment |-> increment,
     body |-> body]

Stmt_ForEach(variable, iterable, body) ==
    [s |-> "ForEach", variable |-> variable, iterable |-> iterable, body |-> body]

Stmt_ClassDecl(name, extends, methods, properties) ==
    [s |-> "ClassDecl", name |-> name, extends |-> extends, methods |-> methods,
     properties |-> properties]

Stmt_Block(stmts) == [s |-> "Block", stmts |-> stmts]

(* one entry of ClassDecl.methods and of ClassDecl.properties *)
MethodDecl(name, params, return_type, body) ==
    [name |-> name, params |-> params, return_type |-> return_type, body |-> body]

PropertyDecl(name, expr) == [name |-> name, expr |-> expr]

Program(statements) == [statements |-> statements]

----------------------------------------------------------------------------
(* Builtins, src/src/runtime/builtins.rs *)

(* register_builtins, were filter registered with one parameter *)
register_builtins_unary_filter ==
    [name \in {"typeof", "print", "map", "filter", "len"} |->
        Value_NativeFunction(name, IF name = "map" THEN 2 ELSE 1)]

register_builtins ==
    [name \in {"typeof", "print", "map", "filter", "len"} |->
        Value_NativeFunction(name, IF name \in {"map", "filter"} THEN 2 ELSE 1)]

(* String::len on the strings of this model, which are ASCII *)
str_len(s) == Len(s)

(* Result<Value, String> and the lines println! wrote: [err, val, printed] *)
call_builtin(name, args) ==
    CASE name = "typeof" ->
            IF Len(args) # 1
            THEN [err |-> "typeof expects 1 argument, got " \o ToString(Len(args)),
                  val |-> Value_Null, printed |-> <<>>]
            ELSE [err |-> "", val |-> Value_String(type_name(args[1])), printed |-> <<>>]
      [] name = "print" ->
            IF Len(args) # 1
            THEN [err |-> "print expects 1 argument, got " \o ToString(Len(args)),
                  val |-> Value_Null, printed |-> <<>>]
            ELSE [err |-> "", val |-> Value_Null, printed |-> <<Display(args[1])>>]
      [] name = "len" ->
            IF Len(args) # 1
            THEN [err |-> "len expects 1 argument, got " \o ToString(Len(args)),
                  val |-> Value_Null, printed |-> <<>>]
            ELSE CASE args[1].t = "Array" ->
                        [err |-> "", val |-> Value_Number(F64_int(Len(args[1].items))),
                         printed |-> <<>>]
                   [] args[1].t = "String" ->
                        [err |-> "", val |-> Value_Number(F64_int(str_len(args[1].s))),
                         printed |-> <<>>]
                   [] OTHER ->
                        [err |-> "len expects Array or String, got " \o type_name(args[1]),
                         val |-> Value_Null, printed |-> <<>>]
      [] OTHER ->
            [err |-> "Unknown builtin function: " \o name, val |-> Value_Null,
             printed |-> <<>>]

----------------------------------------------------------------------------
(* The interpreter, src/src/runtime/mod.rs.  `it` is the Interpreter        *)
(* (globals, scopes, in_context) together with the process's stdout.        *)
(* evaluate_expr returns [it, err, val]; execute_stmt returns [it, err,     *)
(* ret] with ret the Option<Value> of a Return that was reached.  On an     *)
(* error `it` is the interpreter as the `?` operator left it.               *)

Interpreter_new ==
    [globals |-> register_builtins, scopes |-> <<>>, in_context |-> FALSE, stdout |-> <<>>]

ExprOk(it, val) == [it |-> it, err |-> "", val |-> val]

ExprErr(it, msg) == [it |-> it, err |-> msg, val |-> Value_Null]

StmtOk(it, ret) == [it |-> it, err |-> "", ret |-> ret]

StmtErr(it, msg) == [it |-> it, err |-> msg, ret |-> None]

(* starts_with("_") that finds no name private *)
starts_with_underscore_never(name) == FALSE

(* str::starts_with("_"): the private names among the names of this model *)
starts_with_underscore(name) == name \in {"_", "_secret", "_x", "_f", "_C", "_p"}

push_scope(it) == [it EXCEPT !.scopes = Append(@, HashMap_new)]

pop_scope(it) ==
    [it EXCEPT !.scopes = IF Len(@) = 0 THEN @ ELSE SubSeq(@, 1, Len(@) - 1)]

(* index of the innermost scope frame that holds name, 0 when none does *)
innermost_with(scps, name) ==
    LET S == {i \in 1..Len(scps) : contains_key(scps[i], name)}
    IN  IF S = {} THEN 0 ELSE CHOOSE i \in S : \A j \in S : j <= i

(* get_variable, were only the innermost frame searched before the globals *)
get_variable_lexical(it, name) ==
    IF Len(it.scopes) > 0 /\ contains_key(it.scopes[Len(it.scopes)], name)
    THEN [err |-> "", val |-> it.scopes[Len(it.scopes)][name]]
    ELSE IF contains_key(it.globals, name) THEN [err |-> "", val |-> it.globals[name]]
    ELSE [err |-> "Undefined variable: " \o name, val |-> Value_Null]

(* Result<Value, String>: [err, val] *)
get_variable(it, name) ==
    LET i == innermost_with(it.scopes, name)
    IN  IF i > 0 THEN [err |-> "", val |-> it.scopes[i][name]]
        ELSE IF contains_key(it.globals, name) THEN [err |-> "", val |-> it.globals[name]]
        ELSE [err |-> "Undefined variable: " \o name, val |-> Value_Null]

(* set_variable without the search: the binding goes to the innermost frame *)
set_variable_innermost(it, name, value) ==
    IF Len(it.scopes) > 0
    THEN [it EXCEPT !.scopes[Len(it.scopes)] = insert(@, name, value)]
    ELSE [it EXCEPT !.globals = insert(@, name, value)]

(* set_variable, were a name found in no frame defined in the innermost one *)
set_variable_defining(it, name, value) ==
    LET i == innermost_with(it.scopes, name)
    IN  IF i > 0 THEN [it EXCEPT !.scopes[i] = insert(@, name, value)]
        ELSE IF Len(it.scopes) > 0
        THEN [it EXCEPT !.scopes[Len(it.scopes)] = insert(@, name, value)]
        ELSE [it EXCEPT !.globals = insert(@, name, value)]

set_variable(it, name, value) ==
    LET i == innermost_with(it.scopes, name)
    IN  IF i > 0 THEN [it EXCEPT !.scopes[i] = insert(@, name, value)]
        ELSE [it EXCEPT !.globals = insert(@, name, value)]

define_variable(it, name, value) ==
    IF Len(it.scopes) > 0
    THEN [it EXCEPT !.scopes[Len(it.scopes)] = insert(@, name, value)]
    ELSE [it EXCEPT !.globals = insert(@, name, value)]

(* capture_closure, were no binding of the frames copied *)
capture_closure_empty(it) == HashMap_new

capture_closure(it) ==
    LET names == UNION {DOMAIN it.scopes[i] : i \in 1..Len(it.scopes)}
    IN  [name \in names |-> it.scopes[innermost_with(it.scopes, name)][name]]

literal_to_value(lit) ==
    CASE lit.l = "Number" -> Value_Number(lit.n)
      [] lit.l = "String" -> Value_String(lit.s)
      [] lit.l = "Boolean" -> Value_Boolean(lit.b)
      [] lit.l = "Null" -> Value_Null

values_equal(a, b) ==
    CASE a.t = "Number" /\ b.t = "Number" -> F64_eq(a.n, b.n)
      [] a.t = "String" /\ b.t = "String" -> a.s = b.s
      [] a.t = "Boolean" /\ b.t = "Boolean" -> a.b = b.b
      [] a.t = "Null" /\ b.t = "Null" -> TRUE
      [] OTHER -> FALSE

(* Result<Value, String>: [err, val] *)
BinOk(val) == [err |-> "", val |-> val]

BinErr(msg) == [err |-> msg, val |-> Value_Null]

(* the arms of apply_binary_op that convert both operands with to_number *)
numeric_op(left, right, f(_, _)) ==
    LET a == to_number(left)
        b == to_number(right)
    IN  IF a.err # "" THEN BinErr(a.err)
        ELSE IF b.err # "" THEN BinErr(b.err)
        ELSE f(a.n, b.n)

(* Divide without the test of the divisor, as a saturating division *)
Divide_unchecked(a, b) ==
    IF F64_is_zero(b) THEN BinOk(Value_Number(F64_int(0)))
    ELSE BinOk(Value_Number(F64_div(a, b)))

Divide(a, b) ==
    IF F64_is_zero(b) THEN BinErr("Division by zero")
    ELSE BinOk(Value_Number(F64_div(a, b)))

apply_binary_op(left, op, right) ==
    CASE op = "Add" ->
            CASE left.t = "Number" /\ right.t = "Number" ->
                    BinOk(Value_Number(F64_add(left.n, right.n)))
              [] left.t = "String" /\ right.t = "String" ->
                    BinOk(Value_String(left.s \o right.s))
              [] OTHER ->
                    BinErr("Cannot add " \o type_name(left) \o " and " \o type_name(right))
      [] op = "Subtract" ->
            numeric_op(left, right, LAMBDA a, b : BinOk(Value_Number(F64_sub(a, b))))
      [] op = "Multiply" ->
            numeric_op(left, right, LAMBDA a, b : BinOk(Value_Number(F64_mul(a, b))))
      [] op = "Divide" -> numeric_op(left, right, Divide)
      [] op = "Equal" -> BinOk(Value_Boolean(values_equal(left, right)))
      [] op = "NotEqual" -> BinOk(Value_Boolean(~values_equal(left, right)))
      [] op = "Less" ->
            numeric_op(left, right, LAMBDA a, b : BinOk(Value_Boolean(F64_lt(a, b))))
      [] op = "LessEqual" ->
            numeric_op(left, right, LAMBDA a, b : BinOk(Value_Boolean(~F64_lt(b, a))))
      [] op = "Greater" ->
            numeric_op(left, right, LAMBDA a, b : BinOk(Value_Boolean(F64_lt(b, a))))
      [] op = "GreaterEqual" ->
            numeric_op(left, right, LAMBDA a, b : BinOk(Value_Boolean(~F64_lt(a, b))))
      [] op = "And" -> BinOk(Value_Boolean(is_truthy(left) /\ is_truthy(right)))
      [] op = "Or" -> BinOk(Value_Boolean(is_truthy(left) \/ is_truthy(right)))

apply_unary_op(op, val) ==
    CASE op = "Not" -> BinOk(Value_Boolean(~is_truthy(val)))
      [] op = "Negate" ->
            IF to_number(val).err # "" THEN BinErr(to_number(val).err)
            ELSE BinOk(Value_Number(F64_neg(to_number(val).n)))

pattern_matches(pattern, value) ==
    CASE pattern.p = "Wildcard" -> TRUE
      [] pattern.p = "Literal" -> values_equal(literal_to_value(pattern.lit), value)
      [] pattern.p = "Identifier" -> pattern.id = type_name(value)

RECURSIVE Interpreter_call(_, _, _)
RECURSIVE execute_stmt(_, _)
RECURSIVE evaluate_expr(_, _)
RECURSIVE run_body(_, _, _)
RECURSIVE while_loop(_, _)
RECURSIVE for_loop(_, _)
RECURSIVE foreach_loop(_, _, _, _)
RECURSIVE evaluate_all(_, _, _, _)
RECURSIVE class_properties(_, _, _, _)
RECURSIVE method_arguments(_, _, _, _, _)
RECURSIVE call_function(_, _, _)
RECURSIVE call_map_method(_, _)
RECURSIVE map_items(_, _, _, _, _)
RECURSIVE match_value(_, _, _, _)

(* `let r = ...;`: the value r, computed once, handed to what follows *)
Let(r, then(_)) == then(r)

(* the `?` operator inside evaluate_expr and call_function: an Err returns  *)
(* at once, with the interpreter as it then is                              *)
Try(r, then(_)) == IF r.err # "" THEN ExprErr(r.it, r.err) ELSE then(r)

(* the `?` operator inside execute_stmt *)
TryStmt(r, then(_)) == IF r.err # "" THEN StmtErr(r.it, r.err) ELSE then(r)

RECURSIVE run_body_through(_, _, _)
(* run_body, were a body to stop only at a return that reaches it from a    *)
(* nested statement, and to run on after a Return statement of its own      *)
run_body_through(stmts, i, it) ==
    IF i > Len(stmts) THEN StmtOk(it, None)
    ELSE TryStmt(Interpreter_call("execute_stmt", stmts[i], it), LAMBDA r :
            IF i = Len(stmts) \/ (IsSome(r.ret) /\ stmts[i].s # "Return") THEN r
            ELSE run_body_through(stmts, i + 1, r.it))

(* `for stmt in body { if let Some(val) = self.execute_stmt(stmt)? { .. break } }` *)
(* from statement i on: the loop of a Block, of a function body and of a    *)
(* method body                                                              *)
run_body(stmts, i, it) ==
    IF i > Len(stmts) THEN StmtOk(it, None)
    ELSE TryStmt(Interpreter_call("execute_stmt", stmts[i], it), LAMBDA r :
            IF IsSome(r.ret) THEN r ELSE run_body(stmts, i + 1, r.it))

while_loop(stmt, it) ==
    TryStmt(Interpreter_call("evaluate_expr", stmt.condition, it), LAMBDA c :
        IF ~is_truthy(c.val) THEN StmtOk(c.it, None)
        ELSE TryStmt(Interpreter_call("execute_stmt", stmt.body, c.it), LAMBDA b :
                IF IsSome(b.ret) THEN b ELSE while_loop(stmt, b.it)))

(* the `loop` of Stmt::For, after the initializer *)
for_loop(stmt, it) ==
    TryStmt(IF IsSome(stmt.condition)
            THEN Interpreter_call("evaluate_expr", Unwrap(stmt.condition), it)
            ELSE ExprOk(it, Value_Boolean(TRUE)), LAMBDA c :
        IF ~is_truthy(c.val) THEN StmtOk(c.it, None)
        ELSE TryStmt(Interpreter_call("execute_stmt", stmt.body, c.it), LAMBDA b :
                IF IsSome(b.ret) THEN b
                ELSE TryStmt(IF IsSome(stmt.increment)
                             THEN Interpreter_call("evaluate_expr", Unwrap(stmt.increment), b.it)
                             ELSE ExprOk(b.it, Value_Null), LAMBDA n :
                        for_loop(stmt, n.it))))

(* foreach_loop that walks the array from its last item to its first *)
foreach_loop_reversed(stmt, items, i, it) ==
    IF i > Len(items) THEN StmtOk(it, None)
    ELSE TryStmt(Interpreter_call("execute_stmt", stmt.body,
                                  define_variable(it, stmt.variable,
                                                  items[Len(items) + 1 - i])),
                 LAMBDA b : IF IsSome(b.ret) THEN b
                            ELSE foreach_loop(stmt, items, i + 1, b.it))

(* `for item in items` of Stmt::ForEach, from item i on *)
foreach_loop(stmt, items, i, it) ==
    IF i > Len(items) THEN StmtOk(it, None)
    ELSE TryStmt(Interpreter_call("execute_stmt", stmt.body,
                                  define_variable(it, stmt.variable, items[i])),
                 LAMBDA b : IF IsSome(b.ret) THEN b
                            ELSE foreach_loop(stmt, items, i + 1, b.it))

(* the expressions from index i on, evaluated left to right onto vals: [it, err, vals] *)
evaluate_all(exprs, i, it, vals) ==
    IF i > Len(exprs) THEN [it |-> it, err |-> "", vals |-> vals]
    ELSE Let(Interpreter_call("evaluate_expr", exprs[i], it), LAMBDA r :
            IF r.err # "" THEN [it |-> r.it, err |-> r.err, vals |-> vals]
            ELSE evaluate_all(exprs, i + 1, r.it, Append(vals, r.val)))

(* the properties_map loop of Stmt::ClassDecl: [it, err, map] *)
class_properties(properties, i, it, map) ==
    IF i > Len(properties) THEN [it |-> it, err |-> "", map |-> map]
    ELSE Let(Interpreter_call("evaluate_expr", properties[i].expr, it), LAMBDA r :
            IF r.err # "" THEN [it |-> r.it, err |-> r.err, map |-> map]
            ELSE class_properties(properties, i + 1, r.it,
                                  insert(map, properties[i].name, r.val)))

(* the methods_map loop of Stmt::ClassDecl *)
class_methods(methods) ==
    LET names == {methods[i].name : i \in 1..Len(methods)}
        last(name) == CHOOSE i \in 1..Len(methods) :
                        /\ methods[i].name = name
                        /\ \A j \in 1..Len(methods) : methods[j].name = name => j <= i
    IN  [name \in names |-> [params |-> methods[last(name)].params,
                             body |-> methods[last(name)].body]]

(* Stmt::ClassDecl, were the parent's methods merged into the class's own *)
define_class_merged(stmt, it, properties_map) ==
    LET parent == get_variable(it, Unwrap(stmt.extends))
    IN  IF IsSome(stmt.extends) /\ ~(parent.err = "" /\ parent.val.t = "Class")
        THEN StmtErr(it, "Parent class '" \o Unwrap(stmt.extends) \o "' not found")
        ELSE StmtOk(define_variable(it, stmt.name,
                        Value_Class(stmt.name,
                                    IF IsSome(stmt.extends) THEN Some(parent.val) ELSE None,
                                    IF IsSome(stmt.extends)
                                    THEN extend(parent.val.methods, class_methods(stmt.methods))
                                    ELSE class_methods(stmt.methods),
                                    properties_map)),
                    None)

(* Stmt::ClassDecl from "Get parent class if extending" on *)
define_class(stmt, it, properties_map) ==
    LET parent == get_variable(it, Unwrap(stmt.extends))
    IN  IF IsSome(stmt.extends) /\ ~(parent.err = "" /\ parent.val.t = "Class")
        THEN StmtErr(it, "Parent class '" \o Unwrap(stmt.extends) \o "' not found")
        ELSE StmtOk(define_variable(it, stmt.name,
                        Value_Class(stmt.name,
                                    IF IsSome(stmt.extends) THEN Some(parent.val) ELSE None,
                                    class_methods(stmt.methods), properties_map)),
                    None)

execute_stmt(stmt, it) ==
    CASE stmt.s = "VarDecl" ->
            TryStmt(Interpreter_call("evaluate_expr", stmt.value, it), LAMBDA r :
                IF get_variable(r.it, stmt.name).err = ""
                THEN StmtOk(set_variable(r.it, stmt.name, r.val), None)
                ELSE StmtOk(define_variable(r.it, stmt.name, r.val), None))
      [] stmt.s = "FuncDecl" ->
            StmtOk(define_variable(it, stmt.name,
                       Value_Function(stmt.params, stmt.body, capture_closure(it))), None)
      [] stmt.s = "Return" ->
            IF IsSome(stmt.value)
            THEN TryStmt(Interpreter_call("evaluate_expr", Unwrap(stmt.value), it), LAMBDA r :
                    StmtOk(r.it, Some(r.val)))
            ELSE StmtOk(it, Some(Value_Null))
      [] stmt.s = "Expr" ->
            TryStmt(Interpreter_call("evaluate_expr", stmt.expr, it), LAMBDA r :
                StmtOk(r.it, None))
      [] stmt.s = "If" ->
            TryStmt(Interpreter_call("evaluate_expr", stmt.condition, it), LAMBDA c :
                IF is_truthy(c.val)
                THEN Interpreter_call("execute_stmt", stmt.then_branch, c.it)
                ELSE IF IsSome(stmt.else_branch)
                     THEN Interpreter_call("execute_stmt", Unwrap(stmt.else_branch), c.it)
                     ELSE StmtOk(c.it, None))
      [] stmt.s = "While" -> while_loop(stmt, it)
      [] stmt.s = "For" ->
            TryStmt(IF IsSome(stmt.init)
                    THEN Interpreter_call("execute_stmt", Unwrap(stmt.init), it)
                    ELSE StmtOk(it, None), LAMBDA i :
                for_loop(stmt, i.it))
      [] stmt.s = "ForEach" ->
            TryStmt(Interpreter_call("evaluate_expr", stmt.iterable, it), LAMBDA r :
                IF r.val.t = "Array" THEN foreach_loop(stmt, r.val.items, 1, r.it)
                ELSE StmtErr(r.it, "Cannot iterate over non-array value in foreach loop"))
      [] stmt.s = "Block" ->
            TryStmt(run_body(stmt.stmts, 1, push_scope(it)), LAMBDA r :
                StmtOk(pop_scope(r.it), r.ret))
      [] stmt.s = "ClassDecl" ->
            TryStmt(class_properties(stmt.properties, 1, it, HashMap_new), LAMBDA props :
                define_class(stmt, props.it, props.map))

(* the parameters of a method call, were every argument evaluated first *)
method_arguments_eager(params, args, i, it, scope) ==
    Let(evaluate_all(args, 1, it, <<>>), LAMBDA a :
        IF a.err # "" THEN [it |-> a.it, err |-> a.err, scope |-> scope]
        ELSE [it |-> a.it, err |-> "",
              scope |-> extend(scope,
                  [name \in {params[j] : j \in 1..Len(params)} |->
                      LET j == CHOOSE j \in 1..Len(params) :
                                   /\ params[j] = name
                                   /\ \A k \in 1..Len(params) : params[k] = name => k <= j
                      IN  IF j <= Len(a.vals) THEN a.vals[j] ELSE Value_Null])])

(* `for (i, param) in params.iter().enumerate()` of Expr::MethodCall, from  *)
(* parameter i on: [it, err, scope]                                         *)
method_arguments(params, args, i, it, scope) ==
    IF i > Len(params) THEN [it |-> it, err |-> "", scope |-> scope]
    ELSE Let(IF i <= Len(args) THEN Interpreter_call("evaluate_expr", args[i], it)
             ELSE ExprOk(it, Value_Null),
             LAMBDA r :
                IF r.err # "" THEN [it |-> r.it, err |-> r.err, scope |-> scope]
                ELSE method_arguments(params, args, i + 1, r.it,
                                      insert(scope, params[i], r.val)))

(* the bindings of a call frame: the closure, then the parameters in order *)
RECURSIVE bind_parameters(_, _, _, _)
bind_parameters(it, params, arg_values, i) ==
    IF i > Len(params) \/ i > Len(arg_values) THEN it
    ELSE bind_parameters(define_variable(it, params[i], arg_values[i]),
                         params, arg_values, i + 1)

(* push_scope, then define_variable for every entry of the closure *)
restore_closure(it, closure) ==
    [it EXCEPT !.scopes = Append(@, extend(HashMap_new, closure))]

(* updated_props, were `this` and the parameters folded as well *)
updated_props_all(properties, updated_scope, params) == extend(properties, updated_scope)

(* the bindings of the popped method frame folded into the properties *)
updated_props(properties, updated_scope, params) ==
    LET folded == {name \in DOMAIN updated_scope :
                      name # "this" /\ \A i \in 1..Len(params) : params[i] # name}
    IN  [name \in DOMAIN properties \cup folded |->
            IF name \in folded THEN updated_scope[name] ELSE properties[name]]

(* Expr::New with the overlay reversed: the parent's defaults win *)
new_object_parent_wins(class_name, class) ==
    LET parent_props == IF IsSome(class.parent) /\ Unwrap(class.parent).t = "Class"
                        THEN Unwrap(class.parent).default_properties
                        ELSE HashMap_new
    IN  Value_Object(class_name, extend(class.default_properties, parent_props))

(* Expr::New, were the defaults of the parent's parent taken as well *)
new_object_two_levels(class_name, class) ==
    LET parent_props == IF IsSome(class.parent) /\ Unwrap(class.parent).t = "Class"
                        THEN Unwrap(class.parent).default_properties
                        ELSE HashMap_new
        grandparent_props == IF /\ IsSome(class.parent)
                                /\ Unwrap(class.parent).t = "Class"
                                /\ IsSome(Unwrap(class.parent).parent)
                             THEN Unwrap(Unwrap(class.parent).parent).default_properties
                             ELSE HashMap_new
    IN  Value_Object(class_name, extend(extend(grandparent_props, parent_props),
                                        class.default_properties))

(* Expr::New once the class value has been found *)
new_object(class_name, class) ==
    LET parent_props == IF IsSome(class.parent) /\ Unwrap(class.parent).t = "Class"
                        THEN Unwrap(class.parent).default_properties
                        ELSE HashMap_new
    IN  Value_Object(class_name, extend(parent_props, class.default_properties))

(* Expr::New, were the arguments evaluated before the object is made *)
evaluate_new_with_args(expr, it) ==
    Try(evaluate_all(expr.args, 1, it, <<>>), LAMBDA a :
        LET c == get_variable(a.it, expr.class_name)
        IN  IF starts_with_underscore(expr.class_name) /\ ~a.it.in_context
            THEN ExprErr(a.it, "Cannot instantiate private class '" \o expr.class_name
                               \o "' from outside context")
            ELSE IF c.err = "" /\ c.val.t = "Class"
            THEN ExprOk(a.it, new_object(expr.class_name, c.val))
            ELSE ExprErr(a.it, "Class '" \o expr.class_name \o "' not found"))

(* Expr::New { class_name, args: _ }: the arguments are not looked at *)
evaluate_new(expr, it) ==
    LET c == get_variable(it, expr.class_name)
    IN  IF starts_with_underscore(expr.class_name) /\ ~it.in_context
        THEN ExprErr(it, "Cannot instantiate private class '" \o expr.class_name
                         \o "' from outside context")
        ELSE IF c.err = "" /\ c.val.t = "Class"
        THEN ExprOk(it, new_object(expr.class_name, c.val))
        ELSE ExprErr(it, "Class '" \o expr.class_name \o "' not found")

(* Expr::BinaryOp, were the right operand of && and || left unevaluated    *)
(* once the left one decides                                                *)
evaluate_binary_short_circuit(expr, it) ==
    Try(Interpreter_call("evaluate_expr", expr.left, it), LAMBDA l :
        IF \/ expr.operator = "And" /\ ~is_truthy(l.val)
           \/ expr.operator = "Or" /\ is_truthy(l.val)
        THEN ExprOk(l.it, Value_Boolean(is_truthy(l.val)))
        ELSE Try(Interpreter_call("evaluate_expr", expr.right, l.it), LAMBDA r :
                Let(apply_binary_op(l.val, expr.operator, r.val), LAMBDA v :
                    [it |-> r.it, err |-> v.err, val |-> v.val])))

(* Expr::BinaryOp: the left operand, the right operand, then the operator *)
evaluate_binary(expr, it) ==
    Try(Interpreter_call("evaluate_expr", expr.left, it), LAMBDA l :
        Try(Interpreter_call("evaluate_expr", expr.right, l.it), LAMBDA r :
            Let(apply_binary_op(l.val, expr.operator, r.val), LAMBDA v :
                [it |-> r.it, err |-> v.err, val |-> v.val])))

(* Expr::PropertyAssign, were the updated object never stored *)
assign_property_unbound(expr, o, r) ==
    IF o.val.t # "Object"
    THEN ExprErr(r.it, "Cannot assign property to " \o type_name(o.val))
    ELSE IF starts_with_underscore(expr.property) /\ ~r.it.in_context
    THEN ExprErr(r.it, "Cannot assign private property '" \o expr.property
                       \o "' from outside class")
    ELSE ExprOk(r.it, r.val)

(* Expr::PropertyAssign once the object o and the value r are evaluated *)
assign_property(expr, o, r) ==
    IF o.val.t # "Object"
    THEN ExprErr(r.it, "Cannot assign property to " \o type_name(o.val))
    ELSE IF starts_with_underscore(expr.property) /\ ~r.it.in_context
    THEN ExprErr(r.it, "Cannot assign private property '" \o expr.property
                       \o "' from outside class")
    ELSE LET obj == Value_Object(o.val.class_name,
                        insert(o.val.properties, expr.property, r.val))
         IN  IF expr.object.e = "Variable"
             THEN ExprOk(set_variable(r.it, expr.object.name, obj), r.val)
             ELSE ExprOk(r.it, r.val)

(* Expr::MethodCall after the body b has run in the frame pushed on `a`:    *)
(* the flag restored, the frame popped and folded into the object           *)
leave_method(expr, o, m, a, b) ==
    LET updated_scope == b.it.scopes[Len(b.it.scopes)]
        left == [pop_scope(b.it) EXCEPT !.in_context = a.it.in_context]
        updated_object == Value_Object(o.val.class_name,
                              updated_props(o.val.properties, updated_scope, m.params))
        result_val == IF IsSome(b.ret) THEN Unwrap(b.ret) ELSE Value_Null
    IN  IF expr.object.e = "Variable"
        THEN ExprOk(set_variable(left, expr.object.name, updated_object), result_val)
        ELSE ExprOk(left, result_val)

(* Expr::MethodCall once the receiver o is evaluated *)
call_method(expr, o) ==
    LET c == get_variable(o.it, o.val.class_name)
        m == c.val.methods[expr.method]
    IN  IF o.val.t # "Object"
        THEN ExprErr(o.it, "Cannot call method on " \o type_name(o.val))
        ELSE IF ~(c.err = "" /\ c.val.t = "Class")
        THEN ExprErr(o.it, "Class '" \o o.val.class_name \o "' not found")
        ELSE IF ~contains_key(c.val.methods, expr.method)
        THEN ExprErr(o.it, "Method '" \o expr.method \o "' not found on class '"
                           \o o.val.class_name \o "'")
        ELSE Try(method_arguments(m.params, expr.args, 1, o.it,
                     extend(insert(HashMap_new, "this", o.val), o.val.properties)),
                 LAMBDA a :
                    Try(run_body(m.body, 1, [a.it EXCEPT !.scopes = Append(@, a.scope),
                                                         !.in_context = TRUE]),
                        LAMBDA b : leave_method(expr, o, m, a, b)))

evaluate_expr(expr, it) ==
    CASE expr.e = "Literal" -> ExprOk(it, literal_to_value(expr.lit))
      [] expr.e = "Variable" ->
            LET r == get_variable(it, expr.name)
            IN  [it |-> it, err |-> r.err, val |-> r.val]
      [] expr.e = "Assign" ->
            Try(Interpreter_call("evaluate_expr", expr.value, it), LAMBDA r :
                ExprOk(set_variable(r.it, expr.name, r.val), r.val))
      [] expr.e = "PropertyAssign" ->
            Try(Interpreter_call("evaluate_expr", expr.object, it), LAMBDA o :
                Try(Interpreter_call("evaluate_expr", expr.value, o.it), LAMBDA r :
                    assign_property(expr, o, r)))
      [] expr.e = "BinaryOp" -> evaluate_binary(expr, it)
      [] expr.e = "UnaryOp" ->
            Try(Interpreter_call("evaluate_expr", expr.right, it), LAMBDA r :
                Let(apply_unary_op(expr.operator, r.val), LAMBDA v :
                    [it |-> r.it, err |-> v.err, val |-> v.val]))
      [] expr.e = "FunctionCall" -> call_function(expr.name, expr.args, it)
      [] expr.e = "Lambda" ->
            ExprOk(it, Value_Lambda(expr.params, expr.body, capture_closure(it)))
      [] expr.e = "Match" ->
            Try(Interpreter_call("evaluate_expr", expr.expr, it), LAMBDA r :
                match_value(r.val, expr.cases, 1, r.it))
      [] expr.e = "Array" ->
            Try(evaluate_all(expr.elements, 1, it, <<>>), LAMBDA r :
                ExprOk(r.it, Value_Array(r.vals)))
      [] expr.e = "New" -> evaluate_new(expr, it)
      [] expr.e = "PropertyAccess" ->
            Try(Interpreter_call("evaluate_expr", expr.object, it), LAMBDA o :
                IF o.val.t # "Object"
                THEN ExprErr(o.it, "Cannot access property '" \o expr.property \o "' on "
                                   \o type_name(o.val))
                ELSE IF starts_with_underscore(expr.property) /\ ~o.it.in_context
                THEN ExprErr(o.it, "Cannot access private property '" \o expr.property
                                   \o "' from outside class")
                ELSE IF contains_key(o.val.properties, expr.property)
                THEN ExprOk(o.it, o.val.properties[expr.property])
                ELSE ExprErr(o.it, "Property '" \o expr.property \o "' not found on object"))
      [] expr.e = "MethodCall" ->
            Try(Interpreter_call("evaluate_expr", expr.object, it), LAMBDA o :
                call_method(expr, o))

(* call_closure, were the frame and in_context left as the body leaves them *)
call_closure_unbalanced(func, arg_values, it) ==
    Try(Let([bind_parameters(restore_closure(it, func.closure), func.params, arg_values, 1)
                EXCEPT !.in_context = TRUE],
            LAMBDA entered :
                IF func.t = "Function" THEN run_body(func.stmts, 1, entered)
                ELSE Let(Interpreter_call("evaluate_expr", func.expr, entered), LAMBDA r :
                        [it |-> r.it, err |-> r.err, ret |-> Some(r.val)])),
        LAMBDA b : ExprOk(b.it, IF IsSome(b.ret) THEN Unwrap(b.ret) ELSE Value_Null))

(* the Function and Lambda arms of call_function, after the arity check *)
call_closure(func, arg_values, it) ==
    Try(Let([bind_parameters(restore_closure(it, func.closure), func.params, arg_values, 1)
                EXCEPT !.in_context = TRUE],
            LAMBDA entered :
                IF func.t = "Function" THEN run_body(func.stmts, 1, entered)
                ELSE Let(Interpreter_call("evaluate_expr", func.expr, entered), LAMBDA r :
                        [it |-> r.it, err |-> r.err, ret |-> Some(r.val)])),
        LAMBDA b :
            ExprOk(pop_scope([b.it EXCEPT !.in_context = it.in_context]),
                   IF IsSome(b.ret) THEN Unwrap(b.ret) ELSE Value_Null))

(* call_value, were the arguments bound to the parameters without a count *)
call_value_padded(name, func, arg_values, it) ==
    CASE func.t \in {"Function", "Lambda"} -> call_closure(func, arg_values, it)
      [] func.t = "NativeFunction" ->
            IF func.arity # Len(arg_values)
            THEN ExprErr(it, "Native function " \o func.name \o " expects "
                             \o ToString(func.arity) \o " arguments, got "
                             \o ToString(Len(arg_values)))
            ELSE LET r == call_builtin(func.name, arg_values)
                 IN  [it |-> [it EXCEPT !.stdout = @ \o r.printed],
                      err |-> r.err, val |-> r.val]
      [] OTHER -> ExprErr(it, name \o " is not a function")

(* `match func` of call_function, the arguments evaluated *)
call_value(name, func, arg_values, it) ==
    CASE func.t = "Function" ->
            IF Len(func.params) # Len(arg_values)
            THEN ExprErr(it, "Function " \o name \o " expects "
                             \o ToString(Len(func.params)) \o " arguments, got "
                             \o ToString(Len(arg_values)))
            ELSE call_closure(func, arg_values, it)
      [] func.t = "Lambda" ->
            IF Len(func.params) # Len(arg_values)
            THEN ExprErr(it, "Lambda expects " \o ToString(Len(func.params))
                             \o " arguments, got " \o ToString(Len(arg_values)))
            ELSE call_closure(func, arg_values, it)
      [] func.t = "NativeFunction" ->
            IF func.arity # Len(arg_values)
            THEN ExprErr(it, "Native function " \o func.name \o " expects "
                             \o ToString(func.arity) \o " arguments, got "
                             \o ToString(Len(arg_values)))
            ELSE LET r == call_builtin(func.name, arg_values)
                 IN  [it |-> [it EXCEPT !.stdout = @ \o r.printed],
                      err |-> r.err, val |-> r.val]
      [] OTHER -> ExprErr(it, name \o " is not a function")

call_function(name, args, it) ==
    IF starts_with_underscore(name) /\ ~it.in_context
    THEN ExprErr(it, "Cannot call private function '" \o name \o "' from outside context")
    ELSE IF name = "map" /\ Len(args) # 0 THEN call_map_method(args, it)
    ELSE Try(evaluate_all(args, 1, it, <<>>), LAMBDA a :
            LET f == get_variable(a.it, name)
            IN  IF f.err # "" THEN ExprErr(a.it, f.err)
                ELSE call_value(name, f.val, a.vals, a.it))

(* `for item in arr` of call_map_method, from item i on: [it, err, val] *)
map_items(func_val, arr, i, it, acc) ==
    IF i > Len(arr) THEN ExprOk(it, Value_Array(acc))
    ELSE IF func_val.t # "Lambda"
    THEN ExprErr(it, "map expects a function as second argument")
    ELSE IF Len(func_val.params) # 1 THEN ExprErr(it, "map callback expects 1 parameter")
    ELSE Try(Interpreter_call("evaluate_expr", func_val.expr,
                           define_variable(restore_closure(it, func_val.closure),
                                           func_val.params[1], arr[i])),
             LAMBDA r : map_items(func_val, arr, i + 1, pop_scope(r.it), Append(acc, r.val)))

call_map_method(args, it) ==
    IF Len(args) # 2
    THEN ExprErr(it, "map expects 2 arguments (array, function), got "
                     \o ToString(Len(args)))
    ELSE Try(Interpreter_call("evaluate_expr", args[1], it), LAMBDA array_val :
            Try(Interpreter_call("evaluate_expr", args[2], array_val.it), LAMBDA func_val :
                IF array_val.val.t = "Array"
                THEN map_items(func_val.val, array_val.val.items, 1, func_val.it, <<>>)
                ELSE ExprErr(func_val.it,
                             "map expects an array, got " \o type_name(array_val.val))))

(* match_value that falls through to Null when no case matches *)
match_value_fallthrough(value, cases, i, it) ==
    IF i > Len(cases) THEN ExprOk(it, Value_Null)
    ELSE IF pattern_matches(cases[i].pattern, value)
    THEN Interpreter_call("evaluate_expr", cases[i].body, it)
    ELSE match_value(value, cases, i + 1, it)

(* `for case in cases` of match_value, from case i on *)
match_value(value, cases, i, it) ==
    IF i > Len(cases) THEN ExprErr(it, "No matching case found")
    ELSE IF pattern_matches(cases[i].pattern, value)
    THEN Interpreter_call("evaluate_expr", cases[i].body, it)
    ELSE match_value(value, cases, i + 1, it)

(* `self.evaluate_expr(..)` and `self.execute_stmt(..)`, which call one another *)
Interpreter_call(method, node, it) ==
    CASE method = "evaluate_expr" -> evaluate_expr(node, it)
      [] method = "execute_stmt" -> execute_stmt(node, it)

RECURSIVE execute_from_lenient(_, _, _)
(* execute_from, were a failing statement skipped *)
execute_from_lenient(statements, i, it) ==
    IF i > Len(statements) THEN [it |-> it, err |-> ""]
    ELSE Let(Interpreter_call("execute_stmt", statements[i], it), LAMBDA r :
            execute_from_lenient(statements, i + 1, r.it))

RECURSIVE execute_from(_, _, _)
(* `for stmt in &program.statements { self.execute_stmt(stmt)?; }` from     *)
(* statement i on; the Option<Value> of a statement is dropped              *)
execute_from(statements, i, it) ==
    IF i > Len(statements) THEN [it |-> it, err |-> ""]
    ELSE Let(Interpreter_call("execute_stmt", statements[i], it), LAMBDA r :
            IF r.err # "" THEN [it |-> r.it, err |-> r.err]
            ELSE execute_from(statements, i + 1, r.it))

(* pub fn execute: [it, err] *)
execute(program, it) == execute_from(program.statements, 1, it)

----------------------------------------------------------------------------
(* The parser, src/src/parser/mod.rs.  `ps` is the Parser (tokens,          *)
(* current) together with `stack`, the number of nested expression()        *)
(* activations on the call stack: the one recursion of the grammar that can *)
(* descend without consuming a token.  A parse function returns [ps, err,   *)
(* node].  The thread's stack holds MaxStack such activations; one more     *)
(* aborts the process, which is reported as StackOverflow.                  *)

MaxStack == 2

StackOverflow == "fatal: stack overflow"

Token(token_type, text, line, column) ==
    [token_type |-> token_type, text |-> text, line |-> line, column |-> column]

(* a move of the cursor: by Parser::new, by advance (which stays at the end *)
(* marker and reads previous in either case) or by a reset of self.current  *)
Move(by, at) == [by |-> by, at |-> at]

(* `trail` lists the moves of the cursor since Parser::new *)
Parser_new(toks) ==
    [tokens |-> toks, current |-> 0, stack |-> 0, trail |-> <<Move("new", 0)>>]

ParseOk(ps, node) == [ps |-> ps, err |-> "", node |-> node]

ParseErr(ps, msg) == [ps |-> ps, err |-> msg, node |-> <<>>]

(* current counts from 0 as in the source; a TLA+ sequence counts from 1 *)
peek(ps) == ps.tokens[ps.current + 1]

previous(ps) == ps.tokens[ps.current]

is_at_end(ps) == peek(ps).token_type = "Eof"

advance(ps) ==
    IF ~is_at_end(ps)
    THEN [ps EXCEPT !.current = @ + 1, !.trail = Append(@, Move("advance", ps.current + 1))]
    ELSE [ps EXCEPT !.trail = Append(@, Move("stay", ps.current))]

check(ps, token_type) == IF is_at_end(ps) THEN FALSE ELSE peek(ps).token_type = token_type

(* whether match_token(types) returns true; it then has advanced *)
matches(ps, types) == \E i \in 1..Len(types) : check(ps, types[i])

match_token(ps, types) == IF matches(ps, types) THEN advance(ps) ELSE ps

(* the {:?} of a TokenType *)
Debug(tok) ==
    IF tok.token_type \in {"Number", "String", "Identifier"}
    THEN tok.token_type \o "(\"" \o tok.text \o "\")"
    ELSE tok.token_type

at_line(ps) == " at line " \o ToString(peek(ps).line)

at_line_column(ps) == at_line(ps) \o ", column " \o ToString(peek(ps).column)

consume(ps, token_type, message) ==
    IF check(ps, token_type) THEN ParseOk(advance(ps), previous(advance(ps)))
    ELSE ParseErr(ps, message \o at_line_column(ps))

binary_operator(token_type) ==
    CASE token_type = "EqualEqual" -> "Equal"
      [] token_type = "NotEqual" -> "NotEqual"
      [] token_type = "Greater" -> "Greater"
      [] token_type = "GreaterEqual" -> "GreaterEqual"
      [] token_type = "Less" -> "Less"
      [] token_type = "LessEqual" -> "LessEqual"
      [] token_type = "Plus" -> "Add"
      [] token_type = "Minus" -> "Subtract"
      [] token_type = "Star" -> "Multiply"
      [] token_type = "Slash" -> "Divide"

unary_operator(token_type) ==
    CASE token_type = "Bang" -> "Not"
      [] token_type = "Minus" -> "Negate"

RECURSIVE Parser_call(_, _)
RECURSIVE declaration(_)
RECURSIVE statement(_)
RECURSIVE for_statement(_)
RECURSIVE for_clauses(_)
RECURSIVE declarations_until_brace(_, _)
RECURSIVE class_members(_, _, _)
RECURSIVE expression(_)
RECURSIVE assignment(_)
RECURSIVE or(_)
RECURSIVE or_loop(_, _)
RECURSIVE and(_)
RECURSIVE and_loop(_, _)
RECURSIVE equality(_)
RECURSIVE equality_loop(_, _)
RECURSIVE comparison(_)
RECURSIVE comparison_loop(_, _)
RECURSIVE term(_)
RECURSIVE term_loop(_, _)
RECURSIVE factor(_)
RECURSIVE factor_loop(_, _)
RECURSIVE unary(_)
RECURSIVE call(_)
RECURSIVE call_loop(_, _)
RECURSIVE finish_call(_, _)
RECURSIVE arguments(_, _)
RECURSIVE arguments_loop(_, _)
RECURSIVE primary(_)
RECURSIVE match_cases(_, _)

(* the `?` operator inside the parser: an Err returns at once *)
TryParse(r, then(_)) == IF r.err # "" THEN r ELSE then(r)

(* `loop { if let Identifier(id) .. else return Err(..); if !match Comma { break } }` *)
RECURSIVE parameters_loop(_, _)
parameters_loop(ps, params) ==
    IF peek(ps).token_type # "Identifier"
    THEN ParseErr(ps, "Expected parameter name" \o at_line(ps))
    ELSE IF matches(advance(ps), <<"Comma">>)
    THEN parameters_loop(advance(advance(ps)), Append(params, peek(ps).text))
    ELSE ParseOk(advance(ps), Append(params, peek(ps).text))

(* the parameter list of a function or method, up to the ')' *)
parameters(ps) ==
    IF check(ps, "RightParen") THEN ParseOk(ps, <<>>) ELSE parameters_loop(ps, <<>>)

(* `while !self.check(&RightBrace) && !self.is_at_end() { push(self.declaration()?) }` *)
declarations_until_brace(ps, stmts) ==
    IF check(ps, "RightBrace") \/ is_at_end(ps) THEN ParseOk(ps, stmts)
    ELSE TryParse(Parser_call("declaration", ps), LAMBDA d :
            declarations_until_brace(d.ps, Append(stmts, d.node)))

(* `{ body }` of a function or of a method, from the cursor `annotated`:    *)
(* node is the body                                                         *)
braced_body(annotated, kind) ==
    TryParse(consume(annotated, "LeftBrace", "Expected '{' before " \o kind \o " body"),
             LAMBDA lbrace :
        TryParse(declarations_until_brace(lbrace.ps, <<>>), LAMBDA body :
            TryParse(consume(body.ps, "RightBrace", "Expected '}' after " \o kind \o " body"),
                     LAMBDA rbrace : ParseOk(rbrace.ps, body.node))))

function_declaration(ps) ==
    IF peek(ps).token_type # "Identifier"
    THEN ParseErr(ps, "Expected function name" \o at_line(ps))
    ELSE TryParse(consume(advance(ps), "LeftParen", "Expected '(' after function name"),
                  LAMBDA lparen :
         TryParse(parameters(lparen.ps), LAMBDA params :
         TryParse(consume(params.ps, "RightParen", "Expected ')' after parameters"),
                  LAMBDA rparen :
            LET colon == match_token(rparen.ps, <<"Colon">>)
                typed == matches(rparen.ps, <<"Colon">>)
                return_type == IF typed THEN Some(peek(colon).text) ELSE None
                annotated == IF typed THEN advance(colon) ELSE colon
            IN  IF typed /\ peek(colon).token_type # "Identifier"
                THEN ParseErr(colon, "Expected type name after ':'" \o at_line(colon))
                ELSE TryParse(braced_body(annotated, "function"), LAMBDA body :
                        ParseOk(body.ps, Stmt_FuncDecl(peek(ps).text, params.node,
                                                       return_type, body.node))))))

(* one method of a class body, after `func`: node is a MethodDecl *)
method_declaration(ps) ==
    IF peek(ps).token_type # "Identifier"
    THEN ParseErr(ps, "Expected method name" \o at_line(ps))
    ELSE TryParse(consume(advance(ps), "LeftParen", "Expected '(' after method name"),
                  LAMBDA lparen :
         TryParse(parameters(lparen.ps), LAMBDA params :
         TryParse(consume(params.ps, "RightParen", "Expected ')' after parameters"),
                  LAMBDA rparen :
            LET colon == match_token(rparen.ps, <<"Colon">>)
                typed == matches(rparen.ps, <<"Colon">>)
                            /\ peek(colon).token_type = "Identifier"
                return_type == IF typed THEN Some(peek(colon).text) ELSE None
                annotated == IF typed THEN advance(colon) ELSE colon
            IN  TryParse(braced_body(annotated, "method"), LAMBDA body :
                    ParseOk(body.ps, MethodDecl(peek(ps).text, params.node,
                                                return_type, body.node))))))

(* the loop over a class body: node is [methods, properties] *)
class_members(ps, methods, properties) ==
    IF check(ps, "RightBrace") \/ is_at_end(ps)
    THEN ParseOk(ps, [methods |-> methods, properties |-> properties])
    ELSE IF matches(ps, <<"Func">>)
    THEN TryParse(method_declaration(advance(ps)), LAMBDA m :
            class_members(m.ps, Append(methods, m.node), properties))
    ELSE IF peek(ps).token_type # "Identifier"
    THEN ParseErr(ps, "Expected property name" \o at_line(ps))
    ELSE TryParse(IF matches(advance(ps), <<"Assign">>)
                  THEN Parser_call("expression", advance(advance(ps)))
                  ELSE ParseOk(advance(ps), Expr_Literal(Literal_Null)), LAMBDA value :
            class_members(match_token(value.ps, <<"Semicolon">>), methods,
                          Append(properties, PropertyDecl(peek(ps).text, value.node))))

class_declaration(ps) ==
    LET named == advance(ps)
        inherits == matches(named, <<"Extends">>)
        parent == match_token(named, <<"Extends">>)
        extends == IF inherits THEN Some(peek(parent).text) ELSE None
        headed == IF inherits THEN advance(parent) ELSE parent
    IN  IF peek(ps).token_type # "Identifier"
        THEN ParseErr(ps, "Expected class name" \o at_line(ps))
        ELSE IF inherits /\ peek(parent).token_type # "Identifier"
        THEN ParseErr(parent, "Expected parent class name" \o at_line(parent))
        ELSE TryParse(consume(headed, "LeftBrace", "Expected '{' before class body"),
                      LAMBDA lbrace :
             TryParse(class_members(lbrace.ps, <<>>, <<>>), LAMBDA members :
             TryParse(consume(members.ps, "RightBrace", "Expected '}' after class body"),
                      LAMBDA rbrace :
                ParseOk(rbrace.ps,
                        Stmt_ClassDecl(peek(ps).text, extends, members.node.methods,
                                       members.node.properties)))))

declaration(ps) ==
    IF matches(ps, <<"Func">>) THEN function_declaration(advance(ps))
    ELSE IF matches(ps, <<"Class">>) THEN class_declaration(advance(ps))
    ELSE Parser_call("statement", ps)

return_statement(ps) ==
    IF ~check(ps, "RightBrace")
    THEN TryParse(Parser_call("expression", ps), LAMBDA value :
            ParseOk(value.ps, Stmt_Return(Some(value.node))))
    ELSE ParseOk(ps, Stmt_Return(None))

(* `( condition )` after `if` and after `while`: node is the condition *)
parenthesized_condition(ps, keyword) ==
    TryParse(consume(ps, "LeftParen", "Expected '(' after '" \o keyword \o "'"),
             LAMBDA lparen :
        TryParse(Parser_call("expression", lparen.ps), LAMBDA condition :
            TryParse(consume(condition.ps, "RightParen", "Expected ')' after condition"),
                     LAMBDA rparen : ParseOk(rparen.ps, condition.node))))

(* if_statement, were an else never taken up *)
if_statement_without_else(ps) ==
    TryParse(parenthesized_condition(ps, "if"), LAMBDA condition :
        TryParse(Parser_call("statement", condition.ps), LAMBDA then_branch :
            ParseOk(then_branch.ps, Stmt_If(condition.node, then_branch.node, None))))

if_statement(ps) ==
    TryParse(parenthesized_condition(ps, "if"), LAMBDA condition :
        TryParse(Parser_call("statement", condition.ps), LAMBDA then_branch :
            IF ~matches(then_branch.ps, <<"Else">>)
            THEN ParseOk(then_branch.ps, Stmt_If(condition.node, then_branch.node, None))
            ELSE TryParse(Parser_call("statement", advance(then_branch.ps)),
                          LAMBDA else_branch :
                    ParseOk(else_branch.ps,
                            Stmt_If(condition.node, then_branch.node,
                                    Some(else_branch.node))))))

while_statement(ps) ==
    TryParse(parenthesized_condition(ps, "while"), LAMBDA condition :
        TryParse(Parser_call("statement", condition.ps), LAMBDA body :
            ParseOk(body.ps, Stmt_While(condition.node, body.node))))

(* an optional clause of a for loop: None when the closing token is next *)
optional_statement(ps, closing) ==
    IF check(ps, closing) THEN ParseOk(ps, None)
    ELSE TryParse(Parser_call("statement", ps), LAMBDA s : ParseOk(s.ps, Some(s.node)))

optional_expression(ps, closing) ==
    IF check(ps, closing) THEN ParseOk(ps, None)
    ELSE TryParse(Parser_call("expression", ps), LAMBDA e : ParseOk(e.ps, Some(e.node)))

(* for_statement from "Parse as traditional for loop" on *)
for_clauses(ps) ==
    TryParse(optional_statement(ps, "Semicolon"), LAMBDA init :
    TryParse(consume(init.ps, "Semicolon", "Expected ';' after for loop initializer"),
             LAMBDA semi1 :
    TryParse(optional_expression(semi1.ps, "Semicolon"), LAMBDA condition :
    TryParse(consume(condition.ps, "Semicolon", "Expected ';' after for loop condition"),
             LAMBDA semi2 :
    TryParse(optional_expression(semi2.ps, "RightParen"), LAMBDA increment :
    TryParse(consume(increment.ps, "RightParen", "Expected ')' after for clauses"),
             LAMBDA rparen :
    TryParse(Parser_call("statement", rparen.ps), LAMBDA body :
        ParseOk(body.ps,
                Stmt_For(init.node, condition.node, increment.node, body.node)))))))))

(* for_statement without the reset: the cursor stays after the identifier *)
for_reset_missing(ps, temp_pos) == ps

(* the cursor for_statement restores when no `in` follows the identifier *)
for_reset(ps, temp_pos) ==
    [ps EXCEPT !.current = temp_pos, !.trail = Append(@, Move("reset", temp_pos))]

(* for_statement once `identifier in` has been read: var_name names the loop variable *)
foreach_statement(ps, var_name) ==
    TryParse(Parser_call("expression", ps), LAMBDA iterable :
        TryParse(consume(iterable.ps, "RightParen", "Expected ')' after foreach"),
                 LAMBDA rparen :
            TryParse(Parser_call("statement", rparen.ps), LAMBDA body :
                ParseOk(body.ps, Stmt_ForEach(var_name, iterable.node, body.node)))))

for_statement(ps) ==
    TryParse(consume(ps, "LeftParen", "Expected '(' after 'for'"), LAMBDA lparen :
        IF peek(lparen.ps).token_type # "Identifier" THEN for_clauses(lparen.ps)
        ELSE IF ~matches(advance(lparen.ps), <<"In">>)
        THEN for_clauses(for_reset(advance(lparen.ps), lparen.ps.current))
        ELSE foreach_statement(advance(advance(lparen.ps)), peek(lparen.ps).text))

block_statement(ps) ==
    TryParse(declarations_until_brace(ps, <<>>), LAMBDA stmts :
        TryParse(consume(stmts.ps, "RightBrace", "Expected '}' after block"), LAMBDA rbrace :
            ParseOk(rbrace.ps, stmts.node)))

expression_statement(ps) ==
    TryParse(Parser_call("expression", ps), LAMBDA expr :
        IF expr.node.e = "Assign"
        THEN ParseOk(expr.ps, Stmt_VarDecl(expr.node.name, expr.node.value))
        ELSE ParseOk(expr.ps, Stmt_Expr(expr.node)))

statement(ps) ==
    IF matches(ps, <<"Return">>) THEN return_statement(advance(ps))
    ELSE IF matches(ps, <<"If">>) THEN if_statement(advance(ps))
    ELSE IF matches(ps, <<"While">>) THEN while_statement(advance(ps))
    ELSE IF matches(ps, <<"For">>) THEN for_statement(advance(ps))
    ELSE IF matches(ps, <<"LeftBrace">>)
    THEN TryParse(block_statement(advance(ps)), LAMBDA b :
            ParseOk(b.ps, Stmt_Block(b.node)))
    ELSE expression_statement(ps)

(* the activation has returned: its frame leaves the call stack *)
returned(r, depth) == [r EXCEPT !.ps.stack = depth]

(* an activation of expression() on the call stack *)
expression(ps) ==
    IF ps.stack >= MaxStack THEN ParseErr(ps, StackOverflow)
    ELSE returned(assignment([ps EXCEPT !.stack = @ + 1]), ps.stack)

assignment(ps) ==
    TryParse(or(ps), LAMBDA expr :
        IF ~matches(expr.ps, <<"Assign">>) THEN expr
        ELSE TryParse(assignment(advance(expr.ps)), LAMBDA value :
                CASE expr.node.e = "Variable" ->
                        ParseOk(value.ps, Expr_Assign(expr.node.name, value.node))
                  [] expr.node.e = "PropertyAccess" ->
                        ParseOk(value.ps, Expr_PropertyAssign(expr.node.object,
                                              expr.node.property, value.node))
                  [] OTHER -> ParseErr(value.ps, "Invalid assignment target")))

or_loop(ps, expr) ==
    IF ~matches(ps, <<"Or">>) THEN ParseOk(ps, expr)
    ELSE TryParse(and(advance(ps)), LAMBDA right :
            or_loop(right.ps, Expr_BinaryOp(expr, "Or", right.node)))

or(ps) == TryParse(and(ps), LAMBDA expr : or_loop(expr.ps, expr.node))

and_loop(ps, expr) ==
    IF ~matches(ps, <<"And">>) THEN ParseOk(ps, expr)
    ELSE TryParse(equality(advance(ps)), LAMBDA right :
            and_loop(right.ps, Expr_BinaryOp(expr, "And", right.node)))

and(ps) == TryParse(equality(ps), LAMBDA expr : and_loop(expr.ps, expr.node))

equality_loop(ps, expr) ==
    IF ~matches(ps, <<"EqualEqual", "NotEqual">>) THEN ParseOk(ps, expr)
    ELSE TryParse(comparison(advance(ps)), LAMBDA right :
            equality_loop(right.ps,
                Expr_BinaryOp(expr, binary_operator(peek(ps).token_type), right.node)))

equality(ps) == TryParse(comparison(ps), LAMBDA expr : equality_loop(expr.ps, expr.node))

comparison_loop(ps, expr) ==
    IF ~matches(ps, <<"Greater", "GreaterEqual", "Less", "LessEqual">>) THEN ParseOk(ps, expr)
    ELSE TryParse(term(advance(ps)), LAMBDA right :
            comparison_loop(right.ps,
                Expr_BinaryOp(expr, binary_operator(peek(ps).token_type), right.node)))

comparison(ps) == TryParse(term(ps), LAMBDA expr : comparison_loop(expr.ps, expr.node))

term_loop(ps, expr) ==
    IF ~matches(ps, <<"Plus", "Minus">>) THEN ParseOk(ps, expr)
    ELSE TryParse(factor(advance(ps)), LAMBDA right :
            term_loop(right.ps,
                Expr_BinaryOp(expr, binary_operator(peek(ps).token_type), right.node)))

term(ps) == TryParse(factor(ps), LAMBDA expr : term_loop(expr.ps, expr.node))

factor_loop(ps, expr) ==
    IF ~matches(ps, <<"Star", "Slash">>) THEN ParseOk(ps, expr)
    ELSE TryParse(unary(advance(ps)), LAMBDA right :
            factor_loop(right.ps,
                Expr_BinaryOp(expr, binary_operator(peek(ps).token_type), right.node)))

factor(ps) == TryParse(unary(ps), LAMBDA expr : factor_loop(expr.ps, expr.node))

unary(ps) ==
    IF matches(ps, <<"Bang", "Minus">>)
    THEN TryParse(unary(advance(ps)), LAMBDA right :
            ParseOk(right.ps, Expr_UnaryOp(unary_operator(peek(ps).token_type), right.node)))
    ELSE call(ps)

(* `loop { args.push(self.expression()?); if !match Comma { break } }` *)
arguments_loop(ps, args) ==
    TryParse(Parser_call("expression", ps), LAMBDA arg :
        IF matches(arg.ps, <<"Comma">>)
        THEN arguments_loop(advance(arg.ps), Append(args, arg.node))
        ELSE ParseOk(arg.ps, Append(args, arg.node)))

(* a comma-separated expression list up to the closing token *)
arguments(ps, closing) ==
    IF check(ps, closing) THEN ParseOk(ps, <<>>) ELSE arguments_loop(ps, <<>>)

(* `args )` of a call, of a method call and of `new`: node is the arguments *)
call_arguments(ps) ==
    TryParse(arguments(ps, "RightParen"), LAMBDA args :
        TryParse(consume(args.ps, "RightParen", "Expected ')' after arguments"),
                 LAMBDA rparen : ParseOk(rparen.ps, args.node)))

finish_call(ps, callee) ==
    TryParse(call_arguments(ps), LAMBDA args :
        IF callee.e = "Variable"
        THEN ParseOk(args.ps, Expr_FunctionCall(callee.name, args.node))
        ELSE ParseErr(args.ps, "Invalid function call"))

(* the postfix `loop` of call *)
call_loop(ps, expr) ==
    IF matches(ps, <<"LeftParen">>)
    THEN TryParse(finish_call(advance(ps), expr), LAMBDA c : call_loop(c.ps, c.node))
    ELSE IF matches(ps, <<"Dot">>)
    THEN LET dot == advance(ps)
             named == advance(dot)
         IN  IF peek(dot).token_type # "Identifier"
             THEN ParseErr(dot, "Expected property or method name after '.'" \o at_line(dot))
             ELSE IF ~matches(named, <<"LeftParen">>)
             THEN call_loop(named, Expr_PropertyAccess(expr, peek(dot).text))
             ELSE TryParse(call_arguments(advance(named)), LAMBDA args :
                    call_loop(args.ps, Expr_MethodCall(expr, peek(dot).text, args.node)))
    ELSE ParseOk(ps, expr)

call(ps) == TryParse(primary(ps), LAMBDA expr : call_loop(expr.ps, expr.node))

match_pattern(ps) ==
    LET tok == peek(ps)
    IN  CASE tok.token_type = "String" ->
                ParseOk(advance(ps), Pattern_Literal(Literal_String(tok.text)))
          [] tok.token_type = "Number" ->
                IF IsSome(parse_f64(tok.text))
                THEN ParseOk(advance(ps),
                             Pattern_Literal(Literal_Number(Unwrap(parse_f64(tok.text)))))
                ELSE ParseErr(ps, "Invalid number")
          [] tok.token_type = "True" ->
                ParseOk(advance(ps), Pattern_Literal(Literal_Boolean(TRUE)))
          [] tok.token_type = "False" ->
                ParseOk(advance(ps), Pattern_Literal(Literal_Boolean(FALSE)))
          [] tok.token_type = "Identifier" ->
                IF tok.text = "_" THEN ParseOk(advance(ps), Pattern_Wildcard)
                ELSE ParseOk(advance(ps), Pattern_Identifier(tok.text))
          [] OTHER -> ParseErr(ps, "Invalid pattern" \o at_line(ps))

(* `while self.match_token(&[TokenType::Case])` of primary *)
match_cases(ps, cases) ==
    IF ~matches(ps, <<"Case">>) THEN ParseOk(ps, cases)
    ELSE TryParse(match_pattern(advance(ps)), LAMBDA pattern :
         TryParse(consume(pattern.ps, "Arrow", "Expected '=>' after case pattern"),
                  LAMBDA arrow :
         TryParse(Parser_call("expression", arrow.ps), LAMBDA body :
            match_cases(body.ps, Append(cases, MatchCase(pattern.node, body.node))))))

(* the speculative `loop` of primary over a lambda's parameter names: [ps, params] *)
RECURSIVE lambda_params(_, _)
lambda_params(ps, params) ==
    IF peek(ps).token_type # "Identifier" THEN [ps |-> ps, params |-> params]
    ELSE IF matches(advance(ps), <<"Comma">>)
    THEN lambda_params(advance(advance(ps)), Append(params, peek(ps).text))
    ELSE [ps |-> advance(ps), params |-> Append(params, peek(ps).text)]

(* the backtrack of primary, were it to give the text up and go to the end  *)
(* marker                                                                   *)
lambda_backtrack_to_end(ps, start_pos) ==
    [ps EXCEPT !.current = Len(ps.tokens) - 1,
               !.trail = Append(@, Move("reset", Len(ps.tokens) - 1))]

(* "Not a lambda, backtrack": the cursor primary sets before it parses the  *)
(* grouped expression                                                       *)
lambda_backtrack(ps, start_pos) ==
    [ps EXCEPT !.current = start_pos - 1, !.trail = Append(@, Move("reset", start_pos - 1))]

(* "Regular grouped expression" *)
grouped_expression(ps) ==
    TryParse(Parser_call("expression", ps), LAMBDA expr :
        TryParse(consume(expr.ps, "RightParen", "Expected ')' after expression"),
                 LAMBDA rparen : ParseOk(rparen.ps, expr.node)))

(* the TokenType::LeftParen arm of primary, the '(' consumed *)
lambda_or_group(opened) ==
    LET start_pos == opened.current
        lp == lambda_params(opened, <<>>)
        closed == advance(lp.ps)
    IN  IF peek(opened).token_type # "Identifier" THEN grouped_expression(opened)
        ELSE IF check(lp.ps, "RightParen") /\ matches(closed, <<"Arrow">>)
        THEN TryParse(Parser_call("expression", advance(closed)), LAMBDA body :
                ParseOk(body.ps, Expr_Lambda(lp.params, body.node)))
        ELSE IF check(lp.ps, "RightParen")
        THEN grouped_expression(lambda_backtrack(closed, start_pos))
        ELSE grouped_expression(lambda_backtrack(lp.ps, start_pos))

(* the TokenType::New arm of primary, `new` consumed *)
new_expression(new) ==
    IF peek(new).token_type # "Identifier"
    THEN ParseErr(new, "Expected class name after 'new'" \o at_line(new))
    ELSE TryParse(consume(advance(new), "LeftParen", "Expected '(' after class name"),
                  LAMBDA lparen :
            TryParse(call_arguments(lparen.ps), LAMBDA args :
                ParseOk(args.ps, Expr_New(peek(new).text, args.node))))

(* the TokenType::Match arm of primary, `match` consumed *)
match_expression(ps) ==
    TryParse(consume(ps, "LeftParen", "Expected '(' after 'match'"), LAMBDA lparen :
    TryParse(Parser_call("expression", lparen.ps), LAMBDA expr :
    TryParse(consume(expr.ps, "RightParen", "Expected ')' after match expression"),
             LAMBDA rparen :
    TryParse(consume(rparen.ps, "LeftBrace", "Expected '{' before match cases"),
             LAMBDA lbrace :
    TryParse(match_cases(lbrace.ps, <<>>), LAMBDA cases :
    TryParse(consume(cases.ps, "RightBrace", "Expected '}' after match cases"),
             LAMBDA rbrace :
        ParseOk(rbrace.ps, Expr_Match(expr.node, cases.node))))))))

(* the TokenType::LeftBracket arm of primary, '[' consumed *)
array_expression(ps) ==
    TryParse(arguments(ps, "RightBracket"), LAMBDA elements :
        TryParse(consume(elements.ps, "RightBracket", "Expected ']' after array elements"),
                 LAMBDA rbracket : ParseOk(rbracket.ps, Expr_Array(elements.node))))

primary(ps) ==
    LET tok == peek(ps)
    IN  CASE tok.token_type = "True" -> ParseOk(advance(ps), Expr_Literal(Literal_Boolean(TRUE)))
          [] tok.token_type = "False" ->
                ParseOk(advance(ps), Expr_Literal(Literal_Boolean(FALSE)))
          [] tok.token_type = "Null" -> ParseOk(advance(ps), Expr_Literal(Literal_Null))
          [] tok.token_type = "Number" ->
                IF IsSome(parse_f64(tok.text))
                THEN ParseOk(advance(ps),
                             Expr_Literal(Literal_Number(Unwrap(parse_f64(tok.text)))))
                ELSE ParseErr(ps, "Invalid number")
          [] tok.token_type = "String" ->
                ParseOk(advance(ps), Expr_Literal(Literal_String(tok.text)))
          [] tok.token_type = "New" -> new_expression(advance(ps))
          [] tok.token_type = "Identifier" -> ParseOk(advance(ps), Expr_Variable(tok.text))
          [] tok.token_type = "LeftParen" -> lambda_or_group(advance(ps))
          [] tok.token_type = "LeftBracket" -> array_expression(advance(ps))
          [] tok.token_type = "Match" -> match_expression(advance(ps))
          [] OTHER -> ParseErr(ps, "Unexpected token " \o Debug(tok) \o at_line_column(ps))

(* `self.<method>()` among the methods of the grammar, which call one another *)
Parser_call(method, ps) ==
    CASE method = "declaration" -> declaration(ps)
      [] method = "statement" -> statement(ps)
      [] method = "expression" -> expression(ps)

(* `while !self.is_at_end() { statements.push(self.declaration()?) }` *)
RECURSIVE parse_loop(_, _)
parse_loop(ps, statements) ==
    IF is_at_end(ps) THEN ParseOk(ps, Program(statements))
    ELSE TryParse(Parser_call("declaration", ps), LAMBDA d :
            parse_loop(d.ps, Append(statements, d.node)))

(* pub fn parse *)
parse(ps) == parse_loop(ps, <<>>)

----------------------------------------------------------------------------
(* Source text.  A line of a script is written as its words; lexed gives    *)
(* the token stream the lexer hands to the parser for it: one token per     *)
(* word, on line 1, the words one space apart, then the end marker.         *)

Id(text) == [token_type |-> "Identifier", text |-> text]

Num(text) == [token_type |-> "Number", text |-> text]

Str(text) == [token_type |-> "String", text |-> text]

K(token_type) == [token_type |-> token_type, text |-> ""]

Lexeme ==
    [LeftParen |-> "(", RightParen |-> ")", LeftBrace |-> "{", RightBrace |-> "}",
     LeftBracket |-> "[", RightBracket |-> "]", Comma |-> ",", Colon |-> ":",
     Semicolon |-> ";", Dot |-> ".", Assign |-> "=", Plus |-> "+", Minus |-> "-",
     Star |-> "*", Slash |-> "/", Bang |-> "!", EqualEqual |-> "==", NotEqual |-> "!=",
     Less |-> "<", Greater |-> ">", LessEqual |-> "<=", GreaterEqual |-> ">=",
     And |-> "&&", Or |-> "||", Arrow |-> "=>", True |-> "true", False |-> "false",
     Null |-> "null", Func |-> "func", Return |-> "return", Match |-> "match",
     Case |-> "case", If |-> "if", Else |-> "else", While |-> "while", For |-> "for",
     In |-> "in", Class |-> "class", Extends |-> "extends", New |-> "new"]

width(word) ==
    CASE word.token_type \in {"Identifier", "Number"} -> Len(word.text)
      [] word.token_type = "String" -> Len(word.text) + 2
      [] OTHER -> Len(Lexeme[word.token_type])

RECURSIVE lexed_from(_, _, _)
lexed_from(words, i, column) ==
    IF i > Len(words) THEN <<Token("Eof", "", 1, column)>>
    ELSE <<Token(words[i].token_type, words[i].text, 1, column)>>
         \o lexed_from(words, i + 1, column + width(words[i]) + 1)

lexed(words) == lexed_from(words, 1, 1)

RECURSIVE joined(_, _)
(* the lines from line i on as one text *)
joined(lines, i) == IF i > Len(lines) THEN <<>> ELSE lines[i] \o joined(lines, i + 1)

(* the word a lexeme scans to: a keyword or operator, a number, else an identifier *)
word(lexeme) ==
    IF \E k \in DOMAIN Lexeme : Lexeme[k] = lexeme
    THEN K(CHOOSE k \in DOMAIN Lexeme : Lexeme[k] = lexeme)
    ELSE IF IsSome(parse_f64(lexeme)) THEN Num(lexeme)
    ELSE Id(lexeme)

T(lexemes) == [i \in 1..Len(lexemes) |-> word(lexemes[i])]

----------------------------------------------------------------------------
(* The lexer, src/src/lexer/mod.rs.  The input is a sequence of characters, *)
(* each a string of length one; `lx` is the Lexer (input, position, line,   *)
(* column), its current_char read from input at position.                   *)

Lexer_new(input) == [input |-> input, position |-> 0, line |-> 1, column |-> 1]

current_char(lx) ==
    IF lx.position < Len(lx.input) THEN Some(lx.input[lx.position + 1]) ELSE None

(* then(v), the value v computed once *)
With(v, then(_)) == CHOOSE out \in {then(x) : x \in {v}} : TRUE

Lexer_advance(lx) ==
    With(lx, LAMBDA l :
        [l EXCEPT !.line = IF current_char(l) = Some("\n") THEN @ + 1 ELSE @,
                  !.column = IF current_char(l) = Some("\n") THEN 1 ELSE @ + 1,
                  !.position = @ + 1])

Lexer_peek(lx, offset) ==
    IF lx.position + offset < Len(lx.input)
    THEN Some(lx.input[lx.position + offset + 1])
    ELSE None

(* char::is_whitespace, char::is_ascii_digit, char::is_alphabetic and       *)
(* char::is_alphanumeric on the characters of the inputs                    *)
is_whitespace(ch) == ch \in {" ", "\t", "\n", "\r"}

is_ascii_digit(ch) == ch \in {"0", "1", "2", "3", "4", "5", "6", "7", "8", "9"}

is_alphabetic(ch) ==
    ch \in {"a", "b", "c", "d", "e", "f", "g", "h", "i", "j", "k", "l", "m", "n", "o", "p",
            "q", "r", "s", "t", "u", "v", "w", "x", "y", "z", "F", "N"}

is_alphanumeric(ch) == is_alphabetic(ch) \/ is_ascii_digit(ch)

RECURSIVE skip_whitespace(_)
skip_whitespace(lx) ==
    IF IsSome(current_char(lx)) /\ is_whitespace(Unwrap(current_char(lx)))
    THEN skip_whitespace(Lexer_advance(lx))
    ELSE lx

RECURSIVE skip_line(_)
(* the while loop of skip_comment *)
skip_line(lx) ==
    IF IsSome(current_char(lx)) /\ current_char(lx) # Some("\n")
    THEN skip_line(Lexer_advance(lx))
    ELSE lx

skip_comment(lx) ==
    IF current_char(lx) = Some("/") /\ Lexer_peek(lx, 1) = Some("/") THEN skip_line(lx) ELSE lx

RECURSIVE skip_blank(_)
(* the inner loop of tokenize: whitespace and comments *)
skip_blank(lx) ==
    LET w == skip_whitespace(lx)
    IN  IF current_char(w) # Some("/") \/ Lexer_peek(w, 1) # Some("/") THEN w
        ELSE skip_blank(skip_comment(w))

(* the character an escape sequence of a string stands for *)
escaped(c) ==
    CASE c = Some("n") -> "\n"
      [] c = Some("t") -> "\t"
      [] c = Some("r") -> "\r"
      [] c = Some("\\") -> "\\"
      [] c = Some("\"") -> "\""
      [] OTHER -> "\\"

RECURSIVE read_string_loop(_, _)
(* the while loop of read_string: [lx, text] *)
read_string_loop(lx, read) ==
    IF ~IsSome(current_char(lx)) THEN [lx |-> lx, text |-> read]
    ELSE IF current_char(lx) = Some("\"") THEN [lx |-> Lexer_advance(lx), text |-> read]
    ELSE IF current_char(lx) = Some("\\")
    THEN read_string_loop(Lexer_advance(Lexer_advance(lx)),
                          read \o escaped(current_char(Lexer_advance(lx))))
    ELSE read_string_loop(Lexer_advance(lx), read \o Unwrap(current_char(lx)))

read_string(lx) == read_string_loop(Lexer_advance(lx), "")

RECURSIVE read_number_loop(_, _, _)
read_number_loop(lx, read, has_dot) ==
    IF ~IsSome(current_char(lx)) THEN [lx |-> lx, text |-> read]
    ELSE IF is_ascii_digit(Unwrap(current_char(lx)))
    THEN read_number_loop(Lexer_advance(lx), read \o Unwrap(current_char(lx)), has_dot)
    ELSE IF /\ current_char(lx) = Some(".")
            /\ ~has_dot
            /\ IsSome(Lexer_peek(lx, 1))
            /\ is_ascii_digit(Unwrap(Lexer_peek(lx, 1)))
    THEN read_number_loop(Lexer_advance(lx), read \o ".", TRUE)
    ELSE [lx |-> lx, text |-> read]

read_number(lx) == read_number_loop(lx, "", FALSE)

RECURSIVE read_identifier_loop(_, _)
read_identifier_loop(lx, read) ==
    IF /\ IsSome(current_char(lx))
       /\ (is_alphanumeric(Unwrap(current_char(lx))) \/ current_char(lx) = Some("_"))
    THEN read_identifier_loop(Lexer_advance(lx), read \o Unwrap(current_char(lx)))
    ELSE [lx |-> lx, text |-> read]

read_identifier(lx) == read_identifier_loop(lx, "")

(* keyword_or, were no word reserved *)
keyword_never(id) == Id(id)

(* the match of identifier_or_keyword on the word read *)
keyword_or(id) ==
    CASE id = "func" -> K("Func")
      [] id = "return" -> K("Return")
      [] id = "match" -> K("Match")
      [] id = "case" -> K("Case")
      [] id = "true" -> K("True")
      [] id = "false" -> K("False")
      [] id = "null" -> K("Null")
      [] id = "if" -> K("If")
      [] id = "else" -> K("Else")
      [] id = "while" -> K("While")
      [] id = "for" -> K("For")
      [] id = "in" -> K("In")
      [] id = "class" -> K("Class")
      [] id = "extends" -> K("Extends")
      [] id = "new" -> K("New")
      [] OTHER -> Id(id)

(* [lx, word] *)
identifier_or_keyword(lx) ==
    LET r == read_identifier(lx) IN [lx |-> r.lx, err |-> "", word |-> keyword_or(r.text)]

Scanned(lx, token_type) == [lx |-> lx, err |-> "", word |-> K(token_type)]

(* one character, or two when the second is `second` *)
one_or_two(lx, second, two, one) ==
    IF current_char(Lexer_advance(lx)) = Some(second)
    THEN Scanned(Lexer_advance(Lexer_advance(lx)), two)
    ELSE one

unexpected_character(lx, ch, line, column) ==
    [lx |-> lx, word |-> K("Eof"),
     err |-> "Unexpected character '" \o ch \o "' at " \o ToString(line) \o ":"
                 \o ToString(column)]

(* `match ch` of tokenize: operators and delimiters, [lx, err, word] *)
punctuation(lx, ch) ==
    CASE ch = "=" ->
            one_or_two(lx, "=", "EqualEqual",
                       one_or_two(lx, ">", "Arrow", Scanned(Lexer_advance(lx), "Assign")))
      [] ch = "+" -> Scanned(Lexer_advance(lx), "Plus")
      [] ch = "-" -> Scanned(Lexer_advance(lx), "Minus")
      [] ch = "*" -> Scanned(Lexer_advance(lx), "Star")
      [] ch = "/" -> Scanned(Lexer_advance(lx), "Slash")
      [] ch = "!" -> one_or_two(lx, "=", "NotEqual", Scanned(Lexer_advance(lx), "Bang"))
      [] ch = "<" -> one_or_two(lx, "=", "LessEqual", Scanned(Lexer_advance(lx), "Less"))
      [] ch = ">" -> one_or_two(lx, "=", "GreaterEqual", Scanned(Lexer_advance(lx), "Greater"))
      [] ch = "&" ->
            one_or_two(lx, "&", "And",
                       unexpected_character(Lexer_advance(lx), "&", lx.line, lx.column))
      [] ch = "|" ->
            one_or_two(lx, "|", "Or",
                       unexpected_character(Lexer_advance(lx), "|", lx.line, lx.column))
      [] ch = "(" -> Scanned(Lexer_advance(lx), "LeftParen")
      [] ch = ")" -> Scanned(Lexer_advance(lx), "RightParen")
      [] ch = "{" -> Scanned(Lexer_advance(lx), "LeftBrace")
      [] ch = "}" -> Scanned(Lexer_advance(lx), "RightBrace")
      [] ch = "[" -> Scanned(Lexer_advance(lx), "LeftBracket")
      [] ch = "]" -> Scanned(Lexer_advance(lx), "RightBracket")
      [] ch = "," -> Scanned(Lexer_advance(lx), "Comma")
      [] ch = ":" -> Scanned(Lexer_advance(lx), "Colon")
      [] ch = ";" -> Scanned(Lexer_advance(lx), "Semicolon")
      [] ch = "." -> Scanned(Lexer_advance(lx), "Dot")
      [] OTHER -> unexpected_character(lx, ch, lx.line, lx.column)

(* `Some(ch) =>` of tokenize: the token that starts with ch, [lx, err, word] *)
scan_token(lx, ch) ==
    IF is_alphabetic(ch) \/ ch = "_" THEN identifier_or_keyword(lx)
    ELSE IF is_ascii_digit(ch)
    THEN LET r == read_number(lx) IN [lx |-> r.lx, err |-> "", word |-> Num(r.text)]
    ELSE IF ch = "\"" THEN LET r == read_string(lx) IN [lx |-> r.lx, err |-> "", word |-> Str(r.text)]
    ELSE punctuation(lx, ch)

(* `None =>` of tokenize, were the loop left without a token *)
end_of_input_silent(lx, toks) == [lx |-> lx, tokens |-> toks, err |-> "", done |-> TRUE]

(* `None =>` of tokenize: the Eof token, and the loop is left *)
end_of_input(lx, toks) ==
    [lx |-> lx, tokens |-> Append(toks, Token("Eof", "", lx.line, lx.column)),
     err |-> "", done |-> TRUE]

(* one turn of the loop of tokenize: [lx, tokens, err, done] *)
tokenize_turn(lx, toks) ==
    With(skip_blank(lx), LAMBDA at :
        IF ~IsSome(current_char(at)) THEN end_of_input(at, toks)
        ELSE With(scan_token(at, Unwrap(current_char(at))), LAMBDA r :
                IF r.err # "" THEN [lx |-> r.lx, tokens |-> toks, err |-> r.err, done |-> TRUE]
                ELSE [lx |-> r.lx, err |-> "", done |-> FALSE,
                      tokens |-> Append(toks, Token(r.word.token_type, r.word.text,
                                                    at.line, at.column))]))

----------------------------------------------------------------------------
(* The scripts fed to the interpreter.  A script is named by a key          *)
(* [family, a, b, c]; a, b and c select values and variants.                *)

MaxNum == 2

Key(family, a, b, c) == [family |-> family, a |-> a, b |-> b, c |-> c]

(* a = A / f = (x) => a / a = B / f(0);  c = 0: the lambda is `() => a`, called as f() *)
ClosureLines(a, b, c) ==
    << T(<<"a", "=", ToString(a)>>),
       IF c = 0 THEN T(<<"f", "=", "(", ")", "=>", "a">>)
       ELSE T(<<"f", "=", "(", "x", ")", "=>", "a">>),
       T(<<"a", "=", ToString(b)>>),
       IF c = 0 THEN T(<<"f", "(", ")">>) ELSE T(<<"f", "(", "0", ")">>) >>

(* _secret = A / _secret / func g() { return _secret } / g() *)
PrivateLines(a) ==
    << T(<<"_secret", "=", ToString(a)>>),
       T(<<"_secret">>),
       T(<<"func", "g", "(", ")", "{", "return", "_secret", "}">>),
       T(<<"g", "(", ")">>) >>

(* class C { x = A  func set() { this.x = B } } / b = new C() / b.set() / b.x *)
(* c = 1: x is not declared in the class;  c = 2: the body is `x = B`        *)
MethodLines(a, b, c) ==
    << T(<<"class", "C", "{">>)
         \o (IF c = 1 THEN <<>> ELSE T(<<"x", "=", ToString(a)>>))
         \o T(<<"func", "set", "(", ")", "{">>)
         \o (IF c = 2 THEN <<>> ELSE T(<<"this", ".">>))
         \o T(<<"x", "=", ToString(b), "}", "}">>),
       T(<<"b", "=", "new", "C", "(", ")">>),
       T(<<"b", ".", "set", "(", ")">>),
       T(<<"b", ".", "x">>) >>

(* where x is bound when the nested block assigns it:                       *)
(* c = 0  x = A / { x = B } / x             in globals                      *)
(* c = 1  x = A / { { x = B } } / x         in globals, two blocks deep     *)
(* c = 2  { x = A { x = B } print(x) }      in the enclosing block's frame  *)
(* c = 3  func f() { x = A { x = B } return x } / f()   in a call frame     *)
ShadowLines(a, b, c) ==
    LET outer == T(<<"x", "=", ToString(a)>>)
        inner == T(<<"{", "x", "=", ToString(b), "}">>)
    IN  CASE c = 0 -> <<outer, inner, T(<<"x">>)>>
          [] c = 1 -> <<outer, T(<<"{">>) \o inner \o T(<<"}">>), T(<<"x">>)>>
          [] c = 2 -> <<T(<<"{">>) \o outer \o inner \o T(<<"print", "(", "x", ")", "}">>)>>
          [] c = 3 -> <<T(<<"func", "f", "(", ")", "{">>) \o outer \o inner
                            \o T(<<"return", "x", "}">>),
                        T(<<"f", "(", ")">>)>>

(* class A { x = A } / class B extends A { y = B } / o = new B() / o        *)
(* c = 1: class A { x = A  z = A } / class B extends A { x = B  y = B }     *)
InheritLines(a, b, c) ==
    << T(<<"class", "A", "{", "x", "=", ToString(a)>>)
         \o (IF c = 1 THEN T(<<"z", "=", ToString(a)>>) ELSE <<>>) \o T(<<"}">>),
       T(<<"class", "B", "extends", "A", "{">>)
         \o (IF c = 1 THEN T(<<"x", "=", ToString(b)>>) ELSE <<>>)
         \o T(<<"y", "=", ToString(b), "}">>),
       T(<<"o", "=", "new", "B", "(", ")">>),
       T(<<"o">>) >>

(* the private member of kind c, its access at top level, its access from   *)
(* inside a function body, then a call that fails inside a function body    *)
(* and the two accesses again                                               *)
(* c = 0: property o._p;  c = 1: function _f();  c = 2: class new _C()      *)
PrivacyAccess(c) ==
    CASE c = 0 -> T(<<"o", ".", "_p">>)
      [] c = 1 -> T(<<"_f", "(", ")">>)
      [] c = 2 -> T(<<"new", "_C", "(", ")">>)

PrivacyLines(a, c) ==
    << CASE c = 0 -> T(<<"class", "C", "{", "_p", "=", ToString(a), "}">>)
         [] c = 1 -> T(<<"func", "_f", "(", ")", "{", "return", ToString(a), "}">>)
         [] c = 2 -> T(<<"class", "_C", "{", "v", "=", ToString(a), "}">>),
       T(<<"o", "=", "new", "C", "(", ")">>),
       T(<<"func", "g", "(", ")", "{", "return">>) \o PrivacyAccess(c) \o T(<<"}">>),
       PrivacyAccess(c),
       T(<<"g", "(", ")">>),
       T(<<"func", "bad", "(", ")", "{", "return", "1", "/", "0", "}">>),
       T(<<"bad", "(", ")">>),
       PrivacyAccess(c),
       T(<<"g", "(", ")">>) >>

(* the operands of `l / r`: the numbers 0..MaxNum, strings, booleans, null *)
Operands ==
    [i \in 1..(MaxNum + 1) |-> Num(ToString(i - 1))]
        \o <<Str("0"), Str("0.0"), Str("-0"), Str("1"), Str("abc"), Str(""),
             K("True"), K("False"), K("Null")>>

(* l / r *)
DivideLines(a, b) == << <<Operands[a], K("Slash"), Operands[b]>> >>

(* the values matched on and the patterns of the cases *)
Scrutinees ==
    [i \in 1..(MaxNum + 1) |-> Num(ToString(i - 1))]
        \o <<Str("a"), K("True"), K("Null")>>

MatchPatterns ==
    <<Num("0"), Num("1"), Str("a"), K("True"), Id("_"), Id("Number"), Id("String"),
      Id("Null")>>

(* case P => m<i> = <i>: the body of case i binds m<i> and yields i *)
CaseWords(i, p) ==
    <<K("Case"), MatchPatterns[p], K("Arrow"), Id("m" \o ToString(i)), K("Assign"),
      Num(ToString(i))>>

(* the patterns of the cases of script key (a, b, c): b then c, 0 for none *)
CasePatterns(b, c) == IF b = 0 THEN <<>> ELSE IF c = 0 THEN <<b>> ELSE <<b, c>>

(* match (S) { case P1 => m1 = 1  case P2 => m2 = 2 } *)
MatchLines(a, b, c) ==
    << T(<<"match", "(">>) \o <<Scrutinees[a]>> \o T(<<")", "{">>)
         \o (IF b = 0 THEN <<>> ELSE CaseWords(1, b))
         \o (IF c = 0 THEN <<>> ELSE CaseWords(2, c))
         \o T(<<"}">>) >>

(* the longest loop of the scripts *)
MaxLoop == 3

(* the b elements of the array a foreach walks: 1..b ascending (c = 0) or    *)
(* descending (c = 1)                                                       *)
LoopItems(b, c) == [k \in 1..b |-> IF c = 0 THEN k ELSE b + 1 - k]

RECURSIVE listed(_, _)
(* the lexemes of the numbers from index i on, separated by commas *)
listed(items, i) ==
    IF i > Len(items) THEN <<>>
    ELSE (IF i > 1 THEN <<",">> ELSE <<>>) \o <<ToString(items[i])>> \o listed(items, i + 1)

(* a = 0: for (x in [E1, .., Eb]) print(x)                                  *)
(* a = 1: for (i = C; i < B; i = i + 1) print(i)                            *)
LoopLines(a, b, c) ==
    << IF a = 0
       THEN T(<<"for", "(", "x", "in", "[">> \o listed(LoopItems(b, c), 1)
              \o <<"]", ")", "print", "(", "x", ")">>)
       ELSE T(<<"for", "(", "i", "=", ToString(c), ";", "i", "<", ToString(b), ";",
                "i", "=", "i", "+", "1", ")", "print", "(", "i", ")">>) >>

(* the number of steps of a "sequence" script *)
MaxSeq == 3

(* the statement that fails: b = 0 a division by zero, b = 1 an unbound name *)
FailingWords(b) == IF b = 0 THEN T(<<"1", "/", "0">>) ELSE T(<<"u">>)

RECURSIVE StepWords(_, _, _)
(* print(i) v<i> = i for each step i, the failing statement in place of step a *)
StepWords(i, a, b) ==
    IF i > MaxSeq THEN <<>>
    ELSE (IF i = a THEN FailingWords(b)
          ELSE T(<<"print", "(", ToString(i), ")", "v" \o ToString(i), "=", ToString(i)>>))
         \o StepWords(i + 1, a, b)

(* one line of MaxSeq steps; a = 0: no step fails *)
SequenceLines(a, b) == << StepWords(1, a, b) >>

(* the largest number of parameters and of arguments of an "arity" script *)
MaxArity == 2

RECURSIVE separated(_, _)
(* the words separated by commas, from word i on *)
separated(words, i) ==
    IF i > Len(words) THEN <<>>
    ELSE (IF i > 1 THEN <<",">> ELSE <<>>) \o <<words[i]>> \o separated(words, i + 1)

ArityParams(a) == separated([i \in 1..a |-> "p" \o ToString(i)], 1)

ArityCall(b) == <<"f", "(">> \o separated([i \in 1..b |-> ToString(i)], 1) \o <<")">>

(* f of a parameters, called with b arguments at top level and then from    *)
(* inside g;  c = 0: func f(..) { print(7) };  c = 1: f = (..) => 7         *)
ArityLines(a, b, c) ==
    << IF c = 0
       THEN T(<<"func", "f", "(">> \o ArityParams(a) \o <<")", "{", "print", "(", "7", ")", "}">>)
       ELSE T(<<"f", "=", "(">> \o ArityParams(a) \o <<")", "=>", "7">>),
       T(ArityCall(b)),
       T(<<"func", "g", "(", ")", "{">> \o ArityCall(b) \o <<"print", "(", "8", ")", "}">>),
       T(<<"g", "(", ")">>) >>

(* the definition of the callee of a "balance" script                       *)
(* c = 0, 1, 2: a function whose return sits inside blocks inside a while,  *)
(* a for-each, a three-clause for;  c = 3: a recursive function;            *)
(* c = 4: a lambda;  c = 5: a method, with its object                       *)
CalleeWords(c) ==
    CASE c = 0 -> T(<<"func", "f", "(", "n", ")", "{", "while", "(", "true", ")", "{", "{",
                      "return", "_p", "(", ")", "}", "}", "}">>)
      [] c = 1 -> T(<<"func", "f", "(", "n", ")", "{", "for", "(", "x", "in", "[", "1", ",", "2",
                      "]", ")", "{", "{", "return", "_p", "(", ")", "}", "}", "}">>)
      [] c = 2 -> T(<<"func", "f", "(", "n", ")", "{", "for", "(", "i", "=", "0", ";", "i", "<",
                      "2", ";", "i", "=", "i", "+", "1", ")", "{", "if", "(", "true", ")", "{",
                      "return", "_p", "(", ")", "}", "}", "}">>)
      [] c = 3 -> T(<<"func", "f", "(", "n", ")", "{", "if", "(", "n", "<", "1", ")", "{",
                      "return", "_p", "(", ")", "}", "return", "f", "(", "n", "-", "1", ")",
                      "+", "_p", "(", ")", "}">>)
      [] c = 4 -> T(<<"f", "=", "(", "n", ")", "=>", "_p", "(", ")", "+", "_p", "(", ")">>)
      [] c = 5 -> T(<<"class", "C", "{", "v", "=", "0", "func", "f", "(", "n", ")", "{", "{",
                      "return", "_p", "(", ")", "+", "_p", "(", ")", "}", "}", "}",
                      "o", "=", "new", "C", "(", ")">>)

(* the call of the callee with argument a *)
CallWords(a, c) ==
    IF c = 5 THEN T(<<"o", ".", "f", "(", ToString(a), ")">>)
    ELSE T(<<"f", "(", ToString(a), ")">>)

(* the private function _p and a callee whose body calls it; the call at    *)
(* top level; then a call that fails inside a body, and the call again      *)
BalanceLines(a, c) ==
    << T(<<"func", "_p", "(", ")", "{", "return", "1", "}">>),
       CalleeWords(c),
       CallWords(a, c),
       T(<<"func", "bad", "(", ")", "{", "return", "1", "/", "0", "}">>),
       T(<<"bad", "(", ")">>),
       CallWords(a, c) >>

(* f assigns a + 1 to a name a bound when f was created, and returns it;    *)
(* f is called twice and a is read                                          *)
(* c = 0: a is a global and f is declared at top level                      *)
(* c = 1: a is bound in the frame of a call of outer, where f is declared   *)
IsolateLines(a, c) ==
    IF c = 0
    THEN << T(<<"a", "=", ToString(a)>>),
            T(<<"func", "f", "(", ")", "{", "a", "=", "a", "+", "1", "return", "a", "}">>),
            T(<<"f", "(", ")">>),
            T(<<"f", "(", ")">>),
            T(<<"a">>) >>
    ELSE << T(<<"func", "outer", "(", "a", ")", "{",
                "func", "f", "(", ")", "{", "a", "=", "a", "+", "1", "return", "a", "}",
                "print", "(", "f", "(", ")", ")", "print", "(", "f", "(", ")", ")",
                "print", "(", "a", ")", "}">>),
            T(<<"outer", "(", ToString(a), ")">>) >>

(* the words that create f, reading a *)
CaptureCreates(lambda) ==
    IF lambda THEN T(<<"f", "=", "(", "x", ")", "=>", "a">>)
    ELSE T(<<"func", "f", "(", "x", ")", "{", "return", "a", "}">>)

(* a is bound to A in a frame, f is created there, a is set to B, f is      *)
(* called from within the frame and a is read                               *)
(* c = 0, 1: the frame of a block;  c = 2, 3: the frame of a call of outer; *)
(* c = 0, 2: f is a function;  c = 1, 3: f is a lambda                      *)
CaptureLines(a, b, c) ==
    IF c \in {0, 1}
    THEN << T(<<"{", "a", "=", ToString(a)>>) \o CaptureCreates(c = 1)
                \o T(<<"a", "=", ToString(b), "r", "=", "f", "(", "0", ")",
                       "print", "(", "r", ")", "print", "(", "a", ")", "}">>) >>
    ELSE << T(<<"func", "outer", "(", "a", ")", "{">>) \o CaptureCreates(c = 3)
                \o T(<<"a", "=", ToString(b), "r", "=", "f", "(", "0", ")",
                       "print", "(", "r", ")", "print", "(", "a", ")", "}">>),
            T(<<"outer", "(", ToString(a), ")">>) >>

(* the body of the callee of a "return" script: a return of A at the        *)
(* nesting c, each enclosing body followed by q, a variable never defined,  *)
(* whose evaluation is an error                                             *)
(* c = 0: directly;  c = 1: in an if;  c = 2: in a while;                   *)
(* c = 3: in a three-clause for;  c = 4: in a block in a for-each, of the   *)
(* element;  c = 5: in an if in a while;                                    *)
(* c = 6: a bare return in an if;  c = 7: print(1) and no return            *)
ReturnBody(a, c) ==
    CASE c = 0 -> T(<<"return", ToString(a), "q">>)
      [] c = 1 -> T(<<"if", "(", "true", ")", "{", "return", ToString(a), "q",
                      "}", "q">>)
      [] c = 2 -> T(<<"while", "(", "true", ")", "{", "return", ToString(a),
                      "q", "}", "q">>)
      [] c = 3 -> T(<<"for", "(", "i", "=", "0", ";", "i", "<", "2", ";", "i",
                      "=", "i", "+", "1", ")", "{", "return",
                      ToString(a), "q", "}", "q">>)
      [] c = 4 -> T(<<"for", "(", "x", "in", "[", ToString(a), ",", "9", "]",
                      ")", "{", "{", "return", "x", "}", "q",
                      "}", "q">>)
      [] c = 5 -> T(<<"while", "(", "true", ")", "{", "if", "(", "true", ")",
                      "{", "return", ToString(a), "}", "q",
                      "}", "q">>)
      [] c = 6 -> T(<<"if", "(", "true", ")", "{", "return", "}", "q">>)
      [] c = 7 -> T(<<"print", "(", "1", ")">>)

(* b = 0: the body is that of the function f, called as f();                *)
(* b = 1: that of the method f of class C, called as o.f()                  *)
ReturnLines(a, b, c) ==
    IF b = 0
    THEN << T(<<"func", "f", "(", ")", "{">>) \o ReturnBody(a, c) \o T(<<"}">>),
            T(<<"f", "(", ")">>) >>
    ELSE << T(<<"class", "C", "{", "func", "f", "(", ")", "{">>) \o ReturnBody(a, c)
                \o T(<<"}", "}", "o", "=", "new", "C", "(", ")">>),
            T(<<"o", ".", "f", "(", ")">>) >>

(* class A with the method m returning A; class B extends A, declaring      *)
(* c = 0, 3: the method n;  c = 1: nothing;  c = 2: a method m of its own,  *)
(* each returning B; then o, an instance of B (of A when c = 3), and o.m()  *)
LookupLines(a, b, c) ==
    << T(<<"class", "A", "{", "func", "m", "(", ")", "{", "return", ToString(a), "}", "}">>),
       T(<<"class", "B", "extends", "A", "{">>)
           \o (IF c = 1 THEN <<>>
               ELSE T(<<"func", IF c = 2 THEN "m" ELSE "n", "(", ")", "{", "return",
                        ToString(b), "}">>))
           \o T(<<"}">>),
       T(<<"o", "=", "new", IF c = 3 THEN "A" ELSE "B", "(", ")">>),
       T(<<"o", ".", "m", "(", ")">>) >>

(* class C with the properties x = A and y = 0 and a method f; o = new C(); *)
(* o.f(7).  The body of f is                                                *)
(* c = 0: x = B  z = p  p = 9, on the parameter p;                          *)
(* c = 1: this.x = B, on p;  c = 2: x = B, on a parameter named y;          *)
(* c = 3: x = B  { w = 1 }, on p                                            *)
FoldLines(a, b, c) ==
    << T(<<"class", "C", "{", "x", "=", ToString(a), "y", "=", "0", "func", "f", "(",
           IF c = 2 THEN "y" ELSE "p", ")", "{">>)
           \o (CASE c = 0 -> T(<<"x", "=", ToString(b), "z", "=", "p", "p", "=", "9">>)
                 [] c = 1 -> T(<<"this", ".", "x", "=", ToString(b)>>)
                 [] c = 2 -> T(<<"x", "=", ToString(b)>>)
                 [] c = 3 -> T(<<"x", "=", ToString(b), "{", "w", "=", "1", "}">>))
           \o T(<<"}", "}">>),
       T(<<"o", "=", "new", "C", "(", ")">>),
       T(<<"o", ".", "f", "(", "7", ")">>) >>

(* class C with the property x = A and the method f setting x = B; class D  *)
(* with the property i, an instance of C; o = new C(), d = new D(); then    *)
(* c = 0: o.f();  c = 1: o.x = B;  c = 2: new C().f();  c = 3: d.i.x = B;   *)
(* c = 4: d.i.f();  c = 5, 6: in a block, on q local to it, q.i.x = B and   *)
(* q.x = B, and x printed                                                   *)
ReceiverLines(a, b, c) ==
    << T(<<"class", "C", "{", "x", "=", ToString(a), "func", "f", "(", ")", "{", "x", "=",
           ToString(b), "}", "}">>),
       T(<<"class", "D", "{", "i", "=", "new", "C", "(", ")", "}">>),
       T(<<"o", "=", "new", "C", "(", ")", "d", "=", "new", "D", "(", ")">>),
       CASE c = 0 -> T(<<"o", ".", "f", "(", ")">>)
         [] c = 1 -> T(<<"o", ".", "x", "=", ToString(b)>>)
         [] c = 2 -> T(<<"new", "C", "(", ")", ".", "f", "(", ")">>)
         [] c = 3 -> T(<<"d", ".", "i", ".", "x", "=", ToString(b)>>)
         [] c = 4 -> T(<<"d", ".", "i", ".", "f", "(", ")">>)
         [] c = 5 -> T(<<"{", "q", "=", "new", "D", "(", ")", "q", ".", "i", ".", "x", "=",
                         ToString(b), "r", "=", "q", ".", "i", "print", "(", "r", ".", "x",
                         ")", "}">>)
         [] c = 6 -> T(<<"{", "q", "=", "new", "C", "(", ")", "q", ".", "x", "=",
                         ToString(b), "print", "(", "q", ".", "x", ")", "}">>) >>

(* v = A; class C with the property p = v; n = new C(); v = B; o = new C()  *)
FreshLines(a, b) ==
    << T(<<"v", "=", ToString(a)>>),
       T(<<"class", "C", "{", "p", "=", "v", "}">>),
       T(<<"n", "=", "new", "C", "(", ")">>),
       T(<<"v", "=", ToString(b)>>),
       T(<<"o", "=", "new", "C", "(", ")">>) >>

(* class C with the property x = A, then o = new C(args), the arguments     *)
(* c = 0: none;  c = 1: B;  c = 2: u, a variable never defined;             *)
(* c = 3: 1 / 0;  c = 4: g = 9, an assignment;  c = 5: B, u                 *)
CtorLines(a, b, c) ==
    << T(<<"class", "C", "{", "x", "=", ToString(a), "}">>),
       T(<<"o", "=", "new", "C", "(">>)
           \o (CASE c = 0 -> <<>>
                 [] c = 1 -> T(<<ToString(b)>>)
                 [] c = 2 -> T(<<"u">>)
                 [] c = 3 -> T(<<"1", "/", "0">>)
                 [] c = 4 -> T(<<"g", "=", "9">>)
                 [] c = 5 -> T(<<ToString(b), ",", "u">>))
           \o T(<<")">>) >>

(* the operands of && and ||: falsy and truthy numbers, strings, booleans,  *)
(* and null                                                                 *)
LogicOperands ==
    <<Num("0"), Num("1"), Str(""), Str("a"), K("False"), K("True"), K("Null")>>

(* g = 0 and h = 0; l sets g = 1 and returns the operand a; r sets h to     *)
(* g + 1 and returns the operand b; then, with op && (c even) or || (c      *)
(* odd):  c = 0, 1: l() op r();  c = 2, 3: l() op u;  c = 4, 5: u op r(),   *)
(* u never defined                                                          *)
LogicLines(a, b, c) ==
    LET op == IF c % 2 = 0 THEN K("And") ELSE K("Or")
    IN  << T(<<"g", "=", "0", "h", "=", "0">>),
           T(<<"func", "l", "(", ")", "{", "g", "=", "1", "return">>)
               \o <<LogicOperands[a]>> \o T(<<"}">>),
           T(<<"func", "r", "(", ")", "{", "h", "=", "g", "+", "1", "return">>)
               \o <<LogicOperands[b]>> \o T(<<"}">>),
           CASE c \in {0, 1} -> T(<<"l", "(", ")">>) \o <<op>> \o T(<<"r", "(", ")">>)
             [] c \in {2, 3} -> T(<<"l", "(", ")">>) \o <<op, Id("u")>>
             [] c \in {4, 5} -> <<Id("u"), op>> \o T(<<"r", "(", ")">>) >>

(* the texts of the values compared with themselves: scalars, then an       *)
(* array, the empty array and an object                                     *)
EqualTexts ==
    << <<Num("0")>>, <<Num("1")>>, <<Str("a")>>, <<Str("")>>, <<K("True")>>, <<K("False")>>,
       <<K("Null")>>, T(<<"[", "1", "]">>), T(<<"[", "]">>), T(<<"new", "C", "(", ")">>) >>

(* a scalar is written as one word *)
IsScalar(a) == Len(EqualTexts[a]) = 1

(* class C; v = the value a; v == v; v != v *)
EqualLines(a) ==
    << T(<<"class", "C", "{", "x", "=", "0", "}">>),
       T(<<"v", "=">>) \o EqualTexts[a],
       T(<<"v", "==", "v">>),
       T(<<"v", "!=", "v">>) >>

(* the elements of the array of a "map" script: none, A, or A and 2 *)
MapElements(a, b) == CASE b = 0 -> <<>> [] b = 1 -> <<a>> [] b = 2 -> <<a, 2>>

(* v = the array; f = the callback; map(v, f).  The callback is             *)
(* c = 0: (x) => x + 1;  c = 1: (x) => g = x;  c = 2: (x, y) => x;          *)
(* c = 3: the number 5;  c = 4: the function f(x) returning x               *)
MapLines(a, b, c) ==
    << T(<<"v", "=", "[">>
             \o separated([i \in 1..b |-> ToString(MapElements(a, b)[i])], 1)
             \o <<"]">>),
       CASE c = 0 -> T(<<"f", "=", "(", "x", ")", "=>", "x", "+", "1">>)
         [] c = 1 -> T(<<"f", "=", "(", "x", ")", "=>", "g", "=", "x">>)
         [] c = 2 -> T(<<"f", "=", "(", "x", ",", "y", ")", "=>", "x">>)
         [] c = 3 -> T(<<"f", "=", "5">>)
         [] c = 4 -> T(<<"func", "f", "(", "x", ")", "{", "return", "x", "}">>),
       T(<<"map", "(", "v", ",", "f", ")">>) >>

(* the private function _p returning A; f = (x) => _p(); v = [1]; h, a      *)
(* function returning map(v, f); then                                       *)
(* c = 0: f(0);  c = 1: map(v, f) at top level;  c = 2: h()                 *)
ContextLines(a, c) ==
    << T(<<"func", "_p", "(", ")", "{", "return", ToString(a), "}">>),
       T(<<"f", "=", "(", "x", ")", "=>", "_p", "(", ")">>),
       T(<<"v", "=", "[", "1", "]">>),
       T(<<"func", "h", "(", ")", "{", "return", "map", "(", "v", ",", "f", ")", "}">>),
       CASE c = 0 -> T(<<"f", "(", "0", ")">>)
         [] c = 1 -> T(<<"map", "(", "v", ",", "f", ")">>)
         [] c = 2 -> T(<<"h", "(", ")">>) >>

(* g = 0 and h = 0; l sets g = 1 and returns A; r sets h to g + 1 and       *)
(* returns 0; then filter called with b arguments:                          *)
(* filter(), filter(l()), filter(l(), r()), filter(l(), r(), 1)             *)
FilterLines(a, b) ==
    << T(<<"g", "=", "0", "h", "=", "0">>),
       T(<<"func", "l", "(", ")", "{", "g", "=", "1", "return", ToString(a), "}">>),
       T(<<"func", "r", "(", ")", "{", "h", "=", "g", "+", "1", "return", "0", "}">>),
       T(<<"filter", "(">>
           \o (CASE b = 0 -> <<>>
                 [] b = 1 -> <<"l", "(", ")">>
                 [] b = 2 -> <<"l", "(", ")", ",", "r", "(", ")">>
                 [] b = 3 -> <<"l", "(", ")", ",", "r", "(", ")", ",", "1">>)
           \o <<")">>) >>

(* r reads x and w adds 1 to x, a name that is no parameter of theirs and   *)
(* that their closures do not hold; c, whose parameter is x, calls both     *)
(*   C = 0  c(A)                                                            *)
(*   C = 1  r() from top level                                              *)
(*   C = 2  w() from top level                                              *)
(*   C = 3  c(A), with lambdas in place of r and w                          *)
DynamicLines(a, c) ==
    IF c = 3
    THEN << T(<<"r", "=", "(", "y", ")", "=>", "x">>),
            T(<<"w", "=", "(", "y", ")", "=>", "x", "=", "y", "+", "1">>),
            T(<<"func", "c", "(", "x", ")", "{", "w", "(", "x", ")",
                "return", "r", "(", "0", ")", "+", "x", "}">>),
            T(<<"c", "(", ToString(a), ")">>) >>
    ELSE << T(<<"func", "r", "(", ")", "{", "return", "x", "}">>),
            T(<<"func", "w", "(", ")", "{", "x", "=", "x", "+", "1", "return", "0", "}">>),
            T(<<"func", "c", "(", "x", ")", "{", "w", "(", ")",
                "return", "r", "(", ")", "+", "x", "}">>),
            T(CASE c = 0 -> <<"c", "(", ToString(a), ")">>
                [] c = 1 -> <<"r", "(", ")">>
                [] c = 2 -> <<"w", "(", ")">>) >>

(* x is assigned by a statement, u inside an expression, neither bound      *)
(* before                                                                   *)
(*   C = 0  s() and e() return                                              *)
(*   C = 1  s() does both and fails on the undefined q, its frame left      *)
AssignLines(a, c) ==
    IF c = 0
    THEN << T(<<"func", "s", "(", ")", "{", "x", "=", ToString(a), "return", "x", "}">>),
            T(<<"func", "e", "(", ")", "{", "y", "=", "u", "=", ToString(a),
                "return", "y", "+", "u", "}">>),
            T(<<"s", "(", ")">>),
            T(<<"e", "(", ")">>) >>
    ELSE << T(<<"func", "s", "(", ")", "{", "x", "=", ToString(a),
                "y", "=", "u", "=", ToString(a), "q", "}">>),
            T(<<"s", "(", ")">>) >>

(* class C with the property x = A, the method g setting x = B and the      *)
(* method f calling this.g(); o = new C(); then c = 0: o.f(), c = 1: o.g()  *)
NestedLines(a, b, c) ==
    << T(<<"class", "C", "{", "x", "=", ToString(a),
           "func", "g", "(", ")", "{", "x", "=", ToString(b), "}",
           "func", "f", "(", ")", "{", "this", ".", "g", "(", ")", "}", "}">>),
       T(<<"o", "=", "new", "C", "(", ")">>),
       T(<<"o", ".", IF c = 0 THEN "f" ELSE "g", "(", ")">>) >>

(* class A { x = A  w = A } / class B extends A { y = B } /                 *)
(* class C extends B { z = A } / o = new C() / o.x                          *)
(* c = 1: class C extends B { z = A  y = A }                                *)
ChainLines(a, b, c) ==
    << T(<<"class", "A", "{", "x", "=", ToString(a), "w", "=", ToString(a), "}">>),
       T(<<"class", "B", "extends", "A", "{", "y", "=", ToString(b), "}">>),
       T(<<"class", "C", "extends", "B", "{", "z", "=", ToString(a)>>)
         \o (IF c = 1 THEN T(<<"y", "=", ToString(a)>>) ELSE <<>>) \o T(<<"}">>),
       T(<<"o", "=", "new", "C", "(", ")">>),
       T(<<"o", ".", "x">>) >>

(* the i-th argument of the call of a "pad" script: g = g + 1 for the first *)
(* b, then the variable u never defined                                     *)
PadArgument(i, b) ==
    (IF i > 1 THEN <<",">> ELSE <<>>)
        \o (IF i <= b THEN <<"g", "=", "g", "+", "1">> ELSE <<"u">>)

(* class C with the properties x = 0 and y = 0 and the method f(p, r)       *)
(* setting x = p and y = r; g = A and o = new C(); then o.f called with b   *)
(* arguments g = g + 1 followed, when c = 1, by u                           *)
PadLines(a, b, c) ==
    << T(<<"class", "C", "{", "x", "=", "0", "y", "=", "0", "func", "f", "(", "p", ",", "r",
           ")", "{", "x", "=", "p", "y", "=", "r", "}", "}">>),
       T(<<"g", "=", ToString(a), "o", "=", "new", "C", "(", ")">>),
       T(<<"o", ".", "f", "(">>
           \o (IF b + c >= 1 THEN PadArgument(1, b) ELSE <<>>)
           \o (IF b + c >= 2 THEN PadArgument(2, b) ELSE <<>>)
           \o (IF b + c >= 3 THEN PadArgument(3, b) ELSE <<>>)
           \o (IF b + c >= 4 THEN PadArgument(4, b) ELSE <<>>)
           \o <<")">>) >>

Lines(k) ==
    CASE k.family = "closure" -> ClosureLines(k.a, k.b, k.c)
      [] k.family = "private" -> PrivateLines(k.a)
      [] k.family = "method" -> MethodLines(k.a, k.b, k.c)
      [] k.family = "shadow" -> ShadowLines(k.a, k.b, k.c)
      [] k.family = "inherit" -> InheritLines(k.a, k.b, k.c)
      [] k.family = "privacy" -> PrivacyLines(k.a, k.c)
      [] k.family = "divide" -> DivideLines(k.a, k.b)
      [] k.family = "match" -> MatchLines(k.a, k.b, k.c)
      [] k.family = "loop" -> LoopLines(k.a, k.b, k.c)
      [] k.family = "sequence" -> SequenceLines(k.a, k.b)
      [] k.family = "arity" -> ArityLines(k.a, k.b, k.c)
      [] k.family = "balance" -> BalanceLines(k.a, k.c)
      [] k.family = "isolate" -> IsolateLines(k.a, k.c)
      [] k.family = "capture" -> CaptureLines(k.a, k.b, k.c)
      [] k.family = "return" -> ReturnLines(k.a, k.b, k.c)
      [] k.family = "lookup" -> LookupLines(k.a, k.b, k.c)
      [] k.family = "fold" -> FoldLines(k.a, k.b, k.c)
      [] k.family = "receiver" -> ReceiverLines(k.a, k.b, k.c)
      [] k.family = "fresh" -> FreshLines(k.a, k.b)
      [] k.family = "ctor" -> CtorLines(k.a, k.b, k.c)
      [] k.family = "logic" -> LogicLines(k.a, k.b, k.c)
      [] k.family = "equal" -> EqualLines(k.a)
      [] k.family = "map" -> MapLines(k.a, k.b, k.c)
      [] k.family = "context" -> ContextLines(k.a, k.c)
      [] k.family = "filter" -> FilterLines(k.a, k.b)
      [] k.family = "dynamic" -> DynamicLines(k.a, k.c)
      [] k.family = "assign" -> AssignLines(k.a, k.c)
      [] k.family = "nested" -> NestedLines(k.a, k.b, k.c)
      [] k.family = "chain" -> ChainLines(k.a, k.b, k.c)
      [] k.family = "pad" -> PadLines(k.a, k.b, k.c)

Scripts ==
    {Key("closure", a, b, c) : a \in 0..MaxNum, b \in 0..MaxNum, c \in 0..1}
    \cup {Key("private", a, 0, 0) : a \in 0..MaxNum}
    \cup {Key("method", a, b, c) : a \in 0..MaxNum, b \in 0..MaxNum, c \in 0..2}
    \cup {Key("shadow", a, b, c) : a \in 0..MaxNum, b \in 0..MaxNum, c \in 0..3}
    \cup {Key("inherit", a, b, c) : a \in 0..MaxNum, b \in 0..MaxNum, c \in 0..1}
    \cup {Key("privacy", a, 0, c) : a \in 0..MaxNum, c \in 0..2}
    \cup {Key("divide", a, b, 0) : a \in 1..Len(Operands), b \in 1..Len(Operands)}
    \cup {k \in {Key("match", a, b, c) : a \in 1..Len(Scrutinees),
                     b \in 0..Len(MatchPatterns), c \in 0..Len(MatchPatterns)} :
            k.b = 0 => k.c = 0}
    \cup {Key("loop", a, b, c) : a \in 0..1, b \in 0..MaxLoop, c \in 0..1}
    \cup {Key("sequence", a, b, 0) : a \in 0..MaxSeq, b \in 0..1}
    \cup {k \in {Key("arity", a, b, c) : a \in 0..MaxArity, b \in 0..MaxArity, c \in 0..1} :
            k.c = 1 => k.a # 0}
    \cup {Key("balance", a, 0, c) : a \in 0..MaxNum, c \in 0..5}
    \cup {Key("isolate", a, 0, c) : a \in 0..MaxNum, c \in 0..1}
    \cup {Key("capture", a, b, c) : a \in 0..MaxNum, b \in 0..MaxNum, c \in 0..3}
    \cup {Key("return", a, b, c) : a \in 0..MaxNum, b \in 0..1, c \in 0..7}
    \cup {Key("lookup", a, b, c) : a \in 0..MaxNum, b \in 0..MaxNum, c \in 0..3}
    \cup {Key("fold", a, b, c) : a \in 0..MaxNum, b \in 0..MaxNum, c \in 0..3}
    \cup {Key("receiver", a, b, c) : a \in 0..MaxNum, b \in 0..MaxNum, c \in 0..6}
    \cup {Key("fresh", a, b, 0) : a \in 0..MaxNum, b \in 0..MaxNum}
    \cup {Key("ctor", a, b, c) : a \in 0..MaxNum, b \in 0..MaxNum, c \in 0..5}
    \cup {Key("logic", a, b, c) : a \in 1..Len(LogicOperands), b \in 1..Len(LogicOperands),
                                  c \in 0..5}
    \cup {Key("equal", a, 0, 0) : a \in 1..Len(EqualTexts)}
    \cup {Key("map", a, b, c) : a \in 0..MaxNum, b \in 0..2, c \in 0..4}
    \cup {Key("context", a, 0, c) : a \in 0..MaxNum, c \in 0..2}
    \cup {Key("filter", a, b, 0) : a \in 0..MaxNum, b \in 0..3}
    \cup {Key("dynamic", a, 0, c) : a \in 0..MaxNum, c \in 0..3}
    \cup {Key("assign", a, 0, c) : a \in 0..MaxNum, c \in 0..1}
    \cup {Key("nested", a, b, c) : a \in 0..MaxNum, b \in 0..MaxNum, c \in 0..1}
    \cup {Key("chain", a, b, c) : a \in 0..MaxNum, b \in 0..MaxNum, c \in 0..1}
    \cup {Key("pad", a, b, c) : a \in 0..MaxNum, b \in 0..3, c \in 0..1}

----------------------------------------------------------------------------
(* The texts fed to the parser alone. *)

(* the words that may follow the opening parenthesis *)
ParenWords == <<Id("a"), Id("b"), K("Comma"), K("RightParen"), K("Arrow"), K("Plus"), Num("1")>>

(* `(` and then up to three words, a then b then c, 0 for none *)
ParenLine(a, b, c) ==
    <<K("LeftParen")>>
        \o (IF a = 0 THEN <<>> ELSE <<ParenWords[a]>>)
        \o (IF b = 0 THEN <<>> ELSE <<ParenWords[b]>>)
        \o (IF c = 0 THEN <<>> ELSE <<ParenWords[c]>>)

(* parenthesised expressions and lambdas *)
GroupTexts ==
    << T(<<"(", "a", ")">>),
       T(<<"(", "a", "+", "b", ")">>),
       T(<<"(", "a", ",", "b", ")", "=>", "a", "+", "b">>),
       T(<<"(", "x", ")", "=>", "x">>),
       T(<<"(", "1", "+", "2", ")">>),
       T(<<"(", "1", ")">>),
       T(<<"(", "a", ",", "b", ")">>),
       T(<<"(", ")", "=>", "1">>),
       T(<<"(", "-", "a", ")">>) >>

(* the clauses of a for statement, each with the node the grammar gives it *)
Clause(words, node) == [words |-> words, node |-> node]

Var(name) == Expr_Variable(name)

Lit(k) == Expr_Literal(Literal_Number(F64_int(k)))

ForInits ==
    << Clause(<<>>, None),
       Clause(T(<<"i", "=", "0">>), Some(Stmt_VarDecl("i", Lit(0)))),
       Clause(T(<<"i">>), Some(Stmt_Expr(Var("i")))),
       Clause(T(<<"i", "+", "1">>), Some(Stmt_Expr(Expr_BinaryOp(Var("i"), "Add", Lit(1))))),
       Clause(T(<<"i", "=", "j">>), Some(Stmt_VarDecl("i", Var("j")))),
       Clause(T(<<"0">>), Some(Stmt_Expr(Lit(0)))),
       Clause(T(<<"i", "(", ")">>), Some(Stmt_Expr(Expr_FunctionCall("i", <<>>)))) >>

ForConditions ==
    << Clause(<<>>, None),
       Clause(T(<<"i", "<", "2">>), Some(Expr_BinaryOp(Var("i"), "Less", Lit(2)))),
       Clause(T(<<"i">>), Some(Var("i"))),
       Clause(T(<<"true">>), Some(Expr_Literal(Literal_Boolean(TRUE)))) >>

ForIncrements ==
    << Clause(<<>>, None),
       Clause(T(<<"i", "=", "i", "+", "1">>),
              Some(Expr_Assign("i", Expr_BinaryOp(Var("i"), "Add", Lit(1))))),
       Clause(T(<<"i">>), Some(Var("i"))) >>

(* for (INIT ; CONDITION ; INCREMENT) { } *)
ForLine(a, b, c) ==
    T(<<"for", "(">>) \o ForInits[a].words \o T(<<";">>) \o ForConditions[b].words
        \o T(<<";">>) \o ForIncrements[c].words \o T(<<")", "{", "}">>)

ForEachIterables ==
    << Clause(T(<<"xs">>), Var("xs")),
       Clause(T(<<"xs", "(", ")">>), Expr_FunctionCall("xs", <<>>)),
       Clause(T(<<"[", "1", "]">>), Expr_Array(<<Lit(1)>>)),
       Clause(T(<<"i">>), Var("i")) >>

ForEachNames == <<"i", "x", "in_", "_">>

(* for (NAME in ITERABLE) { } *)
ForEachLine(a, b) ==
    T(<<"for", "(", ForEachNames[a], "in">>) \o ForEachIterables[b].words
        \o T(<<")", "{", "}">>)

(* nested if statements without braces, and one with braces *)
DanglingTexts ==
    << T(<<"if", "(", "c", ")", "if", "(", "d", ")", "1", "else", "2">>),
       T(<<"if", "(", "c", ")", "if", "(", "d", ")", "if", "(", "e", ")", "1", "else", "2">>),
       T(<<"if", "(", "c", ")", "if", "(", "d", ")", "1", "else", "2", "else", "3">>),
       T(<<"if", "(", "c", ")", "while", "(", "d", ")", "if", "(", "e", ")", "1", "else", "2">>),
       T(<<"if", "(", "c", ")", "{", "if", "(", "d", ")", "1", "}", "else", "2">>) >>

(* lambdas of no parameter and, last, of one *)
ThunkTexts ==
    << T(<<"(", ")", "=>", "1">>),
       T(<<"f", "=", "(", ")", "=>", "1">>),
       T(<<"(", "x", ")", "=>", "1">>) >>

(* texts the grammar rejects *)
ErrorTexts ==
    << T(<<"1", "=", "2">>),
       T(<<"1", "(", "2", ")">>),
       T(<<"func", "(">>),
       T(<<"(", "1">>),
       T(<<"a", "+">>),
       T(<<"class", "{">>),
       T(<<"func", "f", "(", "1", ")">>),
       T(<<"match", "(", "a", ")", "{", "case", "null", "=>", "1", "}">>),
       T(<<"a", ".", "1">>),
       T(<<"new", "1">>),
       T(<<"if", "a">>),
       T(<<"func", "f", "(", ")", ":", "1", "{", "}">>),
       T(<<"a", "=", "1", "b", "=", ")", "c", "=", "2">>) >>

Text(k) ==
    CASE k.family = "paren" -> ParenLine(k.a, k.b, k.c)
      [] k.family = "error" -> ErrorTexts[k.a]
      [] k.family = "group" -> GroupTexts[k.a]
      [] k.family = "for" -> ForLine(k.a, k.b, k.c)
      [] k.family = "foreach" -> ForEachLine(k.a, k.b)
      [] k.family = "dangling" -> DanglingTexts[k.a]
      [] k.family = "thunk" -> ThunkTexts[k.a]

Texts ==
    {k \in {Key("paren", a, b, c) : a \in 0..Len(ParenWords), b \in 0..Len(ParenWords),
                                    c \in 0..Len(ParenWords)} :
        /\ k.a = 0 => k.b = 0
        /\ k.b = 0 => k.c = 0}
    \cup {Key("group", a, 0, 0) : a \in 1..Len(GroupTexts)}
    \cup {Key("for", a, b, c) : a \in 1..Len(ForInits), b \in 1..Len(ForConditions),
                                c \in 1..Len(ForIncrements)}
    \cup {Key("foreach", a, b, 0) : a \in 1..Len(ForEachNames), b \in 1..Len(ForEachIterables)}
    \cup {Key("error", a, 0, 0) : a \in 1..Len(ErrorTexts)}
    \cup {Key("dangling", a, 0, 0) : a \in 1..Len(DanglingTexts)}
    \cup {Key("thunk", a, 0, 0) : a \in 1..Len(ThunkTexts)}

----------------------------------------------------------------------------
(* The inputs fed to the lexer alone. *)

(* the longest input drawn from Alphabet *)
MaxLen == 3

Alphabet == <<"a", "_", "1", ".", " ", "\n", "/", "&", "\"", "\\">>

(* the input of n characters numbered code: its digits to the base of the   *)
(* size of Alphabet select the characters                                   *)
Chars(n, code) ==
    [i \in 1..n |-> Alphabet[((code \div (Len(Alphabet) ^ (i - 1))) % Len(Alphabet)) + 1]]

(* a word as its characters, as one string, and the token it is to scan to *)
Spelled(chars, text, token_type) == [chars |-> chars, text |-> text, token_type |-> token_type]

(* the reserved words *)
ReservedWords ==
    << Spelled(<<"f", "u", "n", "c">>, "func", "Func"),
       Spelled(<<"r", "e", "t", "u", "r", "n">>, "return", "Return"),
       Spelled(<<"m", "a", "t", "c", "h">>, "match", "Match"),
       Spelled(<<"c", "a", "s", "e">>, "case", "Case"),
       Spelled(<<"t", "r", "u", "e">>, "true", "True"),
       Spelled(<<"f", "a", "l", "s", "e">>, "false", "False"),
       Spelled(<<"n", "u", "l", "l">>, "null", "Null"),
       Spelled(<<"i", "f">>, "if", "If"),
       Spelled(<<"e", "l", "s", "e">>, "else", "Else"),
       Spelled(<<"w", "h", "i", "l", "e">>, "while", "While"),
       Spelled(<<"f", "o", "r">>, "for", "For"),
       Spelled(<<"i", "n">>, "in", "In"),
       Spelled(<<"c", "l", "a", "s", "s">>, "class", "Class"),
       Spelled(<<"e", "x", "t", "e", "n", "d", "s">>, "extends", "Extends"),
       Spelled(<<"n", "e", "w">>, "new", "New") >>

(* words that are not reserved *)
OtherWords ==
    << Spelled(<<"g", "r", "e", "e", "t", "i", "n", "g">>, "greeting", "Identifier"),
       Spelled(<<"c", "o", "u", "n", "t">>, "count", "Identifier"),
       Spelled(<<"f", "u", "n", "c", "s">>, "funcs", "Identifier"),
       Spelled(<<"F", "u", "n", "c">>, "Func", "Identifier"),
       Spelled(<<"N", "e", "w", "s">>, "News", "Identifier"),
       Spelled(<<"i", "f", "f">>, "iff", "Identifier"),
       Spelled(<<"i", "n", "1">>, "in1", "Identifier"),
       Spelled(<<"_", "i", "n">>, "_in", "Identifier"),
       Spelled(<<"n", "u", "l">>, "nul", "Identifier"),
       Spelled(<<"x">>, "x", "Identifier"),
       Spelled(<<"_">>, "_", "Identifier"),
       Spelled(<<"a", "1", "_">>, "a1_", "Identifier"),
       Spelled(<<"c", "l", "a", "s", "s", "e", "s">>, "classes", "Identifier") >>

(* the inputs of the tests of the lexer *)
Phrases ==
    << <<"f", "u", "n", "c", " ", "r", "e", "t", "u", "r", "n", " ", "m", "a", "t", "c", "h", " ", "c", "a", "s", "e">>,
       <<"g", "r", "e", "e", "t", "i", "n", "g", " ", "c", "o", "u", "n", "t">>,
       <<"=", " ", "+", " ", "-", " ", "*", " ", "/">> >>

Source(k) ==
    CASE k.family = "chars" -> Chars(k.a, k.b)
      [] k.family = "reserved" -> ReservedWords[k.a].chars
      [] k.family = "word" -> OtherWords[k.a].chars
      [] k.family = "phrase" -> Phrases[k.a]

Sources ==
    {k \in {Key("chars", n, code, 0) : n \in 0..MaxLen,
                                        code \in 0..(Len(Alphabet) ^ MaxLen - 1)} :
        k.b < Len(Alphabet) ^ k.a}
    \cup {Key("reserved", a, 0, 0) : a \in 1..Len(ReservedWords)}
    \cup {Key("word", a, 0, 0) : a \in 1..Len(OtherWords)}
    \cup {Key("phrase", a, 0, 0) : a \in 1..Len(Phrases)}

----------------------------------------------------------------------------
(* The program, src/src/main.rs.                                            *)
(*   mode        "run" (platypus run FILE), "repl" (platypus repl), or      *)
(*               "parse" (Parser::parse on its own)                         *)
(*   script      the key of the input                                       *)
(*   pc          the next line the REPL reads; 1 before a file is run or a  *)
(*               text is parsed; 0 once the process has ended               *)
(*   globals, scopes, in_context   the Interpreter's fields                 *)
(*   stdout      the lines written by print and by the REPL's echo          *)
(*   result      the outcome of the last line or of the file: err is the    *)
(*               message of "Error: ..." ("" for none), val the Option      *)
(*               execute_repl_line returned                                 *)
(*   tokens      the tokens last handed to a Parser                         *)
(*   parsed      what that Parser returned and where its cursor stopped     *)

NoResult == [err |-> "", val |-> None]

NoParse == [err |-> "", node |-> <<>>, current |-> 0, trail |-> <<>>]

(* Parser::new(tokens).parse() *)
Parsed(toks) ==
    Let(parse(Parser_new(toks)), LAMBDA p :
        [err |-> p.err, node |-> p.node, current |-> p.ps.current, trail |-> p.ps.trail])

interpreter == [globals |-> globals, scopes |-> scopes, in_context |-> in_context,
                stdout |-> stdout]

Becomes(it) ==
    /\ globals' = it.globals
    /\ scopes' = it.scopes
    /\ in_context' = it.in_context
    /\ stdout' = it.stdout

(* fn execute_source, after lexing; p is what the parser returned: [it, err, val] *)
execute_source(p) ==
    IF p.err # "" THEN [it |-> Interpreter_new, err |-> p.err, val |-> None]
    ELSE Let(execute(p.node, Interpreter_new), LAMBDA r :
            [it |-> r.it, err |-> r.err, val |-> None])

(* fn execute_repl_line, after lexing; p is what the parser returned: [it, err, val] *)
execute_repl_line(it, p) ==
    IF p.err # "" THEN [it |-> it, err |-> p.err, val |-> None]
    ELSE IF Len(p.node.statements) = 1 /\ p.node.statements[1].s = "Expr"
    THEN Let(Interpreter_call("evaluate_expr", p.node.statements[1].expr, it), LAMBDA r :
            [it |-> r.it, err |-> r.err, val |-> IF r.err = "" THEN Some(r.val) ELSE None])
    ELSE Let(execute(p.node, it), LAMBDA r : [it |-> r.it, err |-> r.err, val |-> None])

(* the REPL's println of a line's value *)
echo(it, r) ==
    IF r.err = "" /\ IsSome(r.val) /\ Unwrap(r.val) # Value_Null
    THEN [it EXCEPT !.stdout = Append(@, Display(Unwrap(r.val)))]
    ELSE it

Init ==
    /\ mode \in {"run", "repl"}
    /\ script \in Scripts
    /\ pc = 1
    /\ globals = Interpreter_new.globals
    /\ scopes = Interpreter_new.scopes
    /\ in_context = Interpreter_new.in_context
    /\ stdout = Interpreter_new.stdout
    /\ result = NoResult
    /\ tokens = <<>>
    /\ parsed = NoParse
    /\ lexer = Lexer_new(<<>>)

(* the variables once a source has been lexed to toks, parsed to p and run  *)
(* to r, with `it` the interpreter it leaves                                *)
Ran(toks, p, r, it) ==
    /\ tokens' = toks
    /\ parsed' = p
    /\ result' = [err |-> r.err, val |-> r.val]
    /\ Becomes(it)

(* fn execute_source on the tokens of the file *)
RunSource(toks, p) == Let(execute_source(p), LAMBDA r : Ran(toks, p, r, r.it))

(* fn run_file with fn execute_source: the whole file, then the process ends *)
RunFile ==
    /\ mode = "run"
    /\ pc = 1
    /\ RunSource(lexed(joined(Lines(script), 1)), Parsed(lexed(joined(Lines(script), 1))))
    /\ pc' = 0
    /\ UNCHANGED <<mode, script, lexer>>

(* the match on execute_repl_line's result in fn run_repl *)
ReplSource(toks, p) ==
    /\ Let(execute_repl_line(interpreter, p), LAMBDA r : Ran(toks, p, r, echo(r.it, r)))
    /\ pc' = IF p.err = StackOverflow THEN 0 ELSE pc + 1

(* fn run_repl, one turn of the loop on a line of input; a stack overflow   *)
(* in the parser ends the process                                           *)
ReplLine ==
    /\ mode = "repl"
    /\ pc \in 1..Len(Lines(script))
    /\ ReplSource(lexed(Lines(script)[pc]), Parsed(lexed(Lines(script)[pc])))
    /\ UNCHANGED <<mode, script, lexer>>

(* fn run_repl, end of input *)
ReplEof ==
    /\ mode = "repl"
    /\ pc = Len(Lines(script)) + 1
    /\ pc' = 0
    /\ UNCHANGED <<mode, script, globals, scopes, in_context, stdout, result, tokens, parsed, lexer>>

Next == RunFile \/ ReplLine \/ ReplEof

Spec == Init /\ [][Next]_vars

(* Parser::parse applied to a text on its own *)
ParserInit ==
    /\ mode = "parse"
    /\ script \in Texts
    /\ pc = 1
    /\ globals = Interpreter_new.globals
    /\ scopes = Interpreter_new.scopes
    /\ in_context = Interpreter_new.in_context
    /\ stdout = Interpreter_new.stdout
    /\ result = NoResult
    /\ tokens = lexed(Text(script))
    /\ parsed = NoParse
    /\ lexer = Lexer_new(<<>>)

Parse ==
    /\ mode = "parse"
    /\ pc = 1
    /\ parsed' = Parsed(tokens)
    /\ pc' = 0
    /\ UNCHANGED <<mode, script, globals, scopes, in_context, stdout, result, tokens, lexer>>

ParserNext == Parse

ParserSpec == ParserInit /\ [][ParserNext]_vars

(* Lexer::tokenize applied to an input on its own, one turn of its loop at  *)
(* a time                                                                   *)
LexerInit ==
    /\ mode = "lex"
    /\ script \in Sources
    /\ pc = 1
    /\ globals = Interpreter_new.globals
    /\ scopes = Interpreter_new.scopes
    /\ in_context = Interpreter_new.in_context
    /\ stdout = Interpreter_new.stdout
    /\ result = NoResult
    /\ tokens = <<>>
    /\ parsed = NoParse
    /\ lexer = Lexer_new(Source(script))

(* one turn of the loop of tokenize; pc = 0 once tokenize has returned *)
Tokenize ==
    /\ mode = "lex"
    /\ pc = 1
    /\ LET r == tokenize_turn(lexer, tokens)
       IN  /\ lexer' = r.lx
           /\ tokens' = r.tokens
           /\ result' = [err |-> r.err, val |-> None]
           /\ pc' = IF r.done THEN 0 ELSE 1
    /\ UNCHANGED <<mode, script, globals, scopes, in_context, stdout, parsed>>

LexerNext == Tokenize

(* the loop of tokenize runs on until it is left *)
LexerSpec == LexerInit /\ [][LexerNext]_vars /\ WF_vars(LexerNext)

----------------------------------------------------------------------------
(* Properties of the interpreter's sessions (Spec).                         *)

ReplAfter(family, line) == mode = "repl" /\ script.family = family /\ pc = line + 1

Returned(v) == [err |-> "", val |-> Some(v)]

Number(k) == Value_Number(F64_int(k))

(* C1: closure value-capture.  After a = A, f = a lambda returning a, and   *)
(* a = B at top level, the call of f returns A, the value a had when the    *)
(* lambda was created.                                                      *)
C1_ClosureValueCapture ==
    ReplAfter("closure", 4) => result = Returned(Number(script.a))

(* C2: private variable access.  After _secret = A at top level, reading    *)
(* _secret at top level fails with an error, and reading it from inside a   *)
(* function body returns A.                                                 *)
C2_PrivateVariableAccess ==
    /\ ReplAfter("private", 2) => result.err # "" /\ result.val = None
    /\ ReplAfter("private", 4) => result = Returned(Number(script.a))

(* C4: durable method mutation.  After b.set() whose body runs this.x = B   *)
(* on the object held in variable b, the stored object has x = B and the    *)
(* next read of b.x yields B.                                               *)
C4_DurableMethodMutation ==
    (ReplAfter("method", 4) /\ script.c \in {0, 1}) =>
        /\ result = Returned(Number(script.b))
        /\ globals["b"].properties["x"] = Number(script.b)

(* C5: non-shadowing VarDecl.  With x bound to A in globals or in an        *)
(* enclosing frame, x = B inside a nested block updates that binding: after *)
(* the block, x reads B, and no binding of x is left in a block's frame.    *)
C5_NonShadowingVarDecl ==
    /\ (ReplAfter("shadow", 3) /\ script.c \in {0, 1}) =>
            /\ result = Returned(Number(script.b))
            /\ globals["x"] = Number(script.b)
    /\ (script.family = "shadow" /\ script.c = 2 /\ pc # 1) =>
            /\ result.err = ""
            /\ stdout = <<Display(Number(script.b))>>
            /\ "x" \notin DOMAIN globals
    /\ (ReplAfter("shadow", 2) /\ script.c = 3) => result = Returned(Number(script.b))

C5_Witness ==
    /\ ReplAfter("shadow", 3)
    /\ script.c = 1
    /\ script.a # script.b
    /\ parsed.err = ""
    /\ globals["x"] = Number(script.b)

(* the property map C6 expects of new B() *)
InheritedProperties(k) ==
    IF k.c = 0 THEN [n \in {"x", "y"} |-> IF n = "x" THEN Number(k.a) ELSE Number(k.b)]
    ELSE [n \in {"x", "y", "z"} |-> IF n = "z" THEN Number(k.a) ELSE Number(k.b)]

(* C6: inheritance property merge.  new B() for class B extends A has A's   *)
(* default properties overlaid by B's own: exactly {x: A, y: B}, and with   *)
(* x declared in both classes B's x.                                        *)
C6_InheritancePropertyMerge ==
    ReplAfter("inherit", 4) => result = Returned(Value_Object("B", InheritedProperties(script)))

C6_Witness ==
    /\ ReplAfter("inherit", 4)
    /\ script.c = 1
    /\ script.a # script.b
    /\ result.err = ""
    /\ Unwrap(result.val).properties["x"] = Number(script.b)

(* the three private accesses and the error each gives when it is rejected *)
PrivateRead == Expr_PropertyAccess(Expr_Variable("o"), "_p")

PrivateCall == Expr_FunctionCall("_f", <<>>)

PrivateNew == Expr_New("_C", <<>>)

PrivateReadError == "Cannot access private property '_p' from outside class"

PrivateCallError == "Cannot call private function '_f' from outside context"

PrivateNewError == "Cannot instantiate private class '_C' from outside context"

PrivacyErrors == {PrivateReadError, PrivateCallError, PrivateNewError}

HoldsObject(name) ==
    get_variable(interpreter, name).err = "" /\ get_variable(interpreter, name).val.t = "Object"

(* C7: privacy gate.  In every state, the read of a private property of an  *)
(* object, the call of a private function and the instantiation of a        *)
(* private class are each rejected with the private-access error exactly    *)
(* when in_context is unset; and the same accesses made from inside a       *)
(* function body, where the flag is set, are not rejected.                  *)
C7_PrivacyGate ==
    /\ HoldsObject("o") =>
           (evaluate_expr(PrivateRead, interpreter).err = PrivateReadError <=> ~in_context)
    /\ evaluate_expr(PrivateCall, interpreter).err = PrivateCallError <=> ~in_context
    /\ evaluate_expr(PrivateNew, interpreter).err = PrivateNewError <=> ~in_context
    /\ (ReplAfter("privacy", 5) \/ ReplAfter("privacy", 9)) => result.err \notin PrivacyErrors

C7_Witness ==
    /\ ReplAfter("privacy", 8)
    /\ script.c = 0
    /\ in_context
    /\ HoldsObject("o")
    /\ result = Returned(Number(script.a))

(* the operands of the division a "divide" script evaluated *)
Dividend == to_number(literal_to_value(parsed.node.statements[1].expr.left.lit))

Divisor == to_number(literal_to_value(parsed.node.statements[1].expr.right.lit))

(* C8: division by zero.  For operands l and r that both convert to a       *)
(* number, r to exactly zero, l / r is the error "Division by zero" and no  *)
(* value.                                                                   *)
C8_DivisionByZero ==
    (script.family = "divide" /\ pc # 1) =>
        /\ parsed.err = ""
        /\ (Dividend.err = "" /\ Divisor.err = "" /\ F64_is_zero(Divisor.n)) =>
               result = [err |-> "Division by zero", val |-> None]

C8_Witness ==
    /\ ReplAfter("divide", 1)
    /\ Operands[script.a] = K("True")
    /\ Operands[script.b] = Str("0.0")
    /\ Dividend.err = ""
    /\ Divisor.err = ""
    /\ result.err = "Division by zero"

(* the runtime type name of the value a literal word denotes *)
TypeOfWord(w) ==
    CASE w.token_type = "Number" -> "Number"
      [] w.token_type = "String" -> "String"
      [] w.token_type \in {"True", "False"} -> "Boolean"
      [] w.token_type = "Null" -> "Null"

(* pattern word p selects scrutinee word s: `_` always, an identifier by    *)
(* type name, a literal by value                                            *)
PatternSelects(p, s) ==
    IF p.token_type = "Identifier" THEN p.text = "_" \/ p.text = TypeOfWord(s)
    ELSE p = s

(* the first case of a "match" script whose pattern selects the scrutinee, 0 for none *)
FirstCase(k) ==
    LET ps == CasePatterns(k.b, k.c)
        S == {i \in 1..Len(ps) : PatternSelects(MatchPatterns[ps[i]], Scrutinees[k.a])}
    IN  IF S = {} THEN 0 ELSE CHOOSE i \in S : \A j \in S : i <= j

BodyRan(i) == ("m" \o ToString(i)) \in DOMAIN globals

(* C9: match semantics.  The result of a match is the body of the first     *)
(* case, in declaration order, whose pattern matches; no other body is      *)
(* evaluated; with no matching case the result is the error "No matching    *)
(* case found" and no value.                                                *)
C9_MatchSemantics ==
    (script.family = "match" /\ pc # 1) =>
        LET i == FirstCase(script)
        IN  /\ parsed.err = ""
            /\ \A j \in 1..2 : BodyRan(j) <=> j = i
            /\ result.err = IF i = 0 THEN "No matching case found" ELSE ""
            /\ mode = "repl" => result.val = IF i = 0 THEN None ELSE Some(Number(i))

C9_Witness ==
    /\ ReplAfter("match", 1)
    /\ script.b # 0
    /\ script.c # 0
    /\ MatchPatterns[script.b] = Id("Number")
    /\ MatchPatterns[script.c] = Id("_")
    /\ Scrutinees[script.a] = Num("2")
    /\ result = Returned(Number(1))
    /\ BodyRan(1)
    /\ ~BodyRan(2)

(* the lines a loop script is to print, in order *)
LoopPrints(k) ==
    IF k.a = 0 THEN [i \in 1..k.b |-> ToString(LoopItems(k.b, k.c)[i])]
    ELSE [i \in 1..(IF k.b > k.c THEN k.b - k.c ELSE 0) |-> ToString(k.c + i - 1)]

(* the loop script has run to its end, from a file or as a line of the REPL *)
LoopDone == script.family = "loop" /\ (ReplAfter("loop", 1) \/ (mode = "run" /\ pc = 0))

(* C11: loop execution order.  A foreach over an array prints its elements  *)
(* once each, in index order, with the loop variable bound to the element;  *)
(* a three-clause for runs init once and then condition, body, increment    *)
(* until the condition is falsy, so it prints the values of i from the      *)
(* initial one up to the bound, excluded.                                   *)
C11_LoopExecutionOrder ==
    LoopDone => result.err = "" /\ stdout = LoopPrints(script)

C11_Witness ==
    /\ LoopDone
    /\ script.b = MaxLoop
    /\ script.c = 1
    /\ Len(stdout) >= 2
    /\ stdout[1] # stdout[2]

(* C13: session invariant.  In a REPL session, once an input line has       *)
(* finished, with success or with an error, the scope stack is empty and    *)
(* in_context is unset; and a private access at top level after a call      *)
(* that failed inside a function body is rejected.                          *)
C13_SessionInvariant ==
    /\ (mode = "repl" /\ pc # 1) => scopes = <<>> /\ ~in_context
    /\ ReplAfter("privacy", 8) => result.err \in PrivacyErrors

SequenceDone ==
    script.family = "sequence" /\ (ReplAfter("sequence", 1) \/ (mode = "run" /\ pc = 0))

(* the steps of a "sequence" script that run *)
StepsRun == IF script.a = 0 THEN MaxSeq ELSE script.a - 1

FailureOf(b) == IF b = 0 THEN "Division by zero" ELSE "Undefined variable: u"

(* C14: execute on a program.  The statements run in source order; the      *)
(* result is success exactly when no statement fails; when statement a      *)
(* fails the result is its error, no later statement has printed or bound a *)
(* global, and the globals bound by the earlier statements are in place.    *)
C14_ExecuteInOrder ==
    SequenceDone =>
        /\ parsed.err = ""
        /\ result.err = (IF script.a = 0 THEN "" ELSE FailureOf(script.b))
        /\ stdout = [i \in 1..StepsRun |-> ToString(i)]
        /\ \A i \in 1..MaxSeq :
               IF i <= StepsRun
               THEN "v" \o ToString(i) \in DOMAIN globals
                        /\ globals["v" \o ToString(i)] = Number(i)
               ELSE "v" \o ToString(i) \notin DOMAIN globals

C14_Witness ==
    /\ SequenceDone
    /\ script.a = 2
    /\ result.err = "Division by zero"
    /\ stdout = <<"1">>
    /\ "v1" \in DOMAIN globals
    /\ "v3" \notin DOMAIN globals

(* the call f(1, .., b) of an "arity" script *)
ArityCallExpr(b) == Expr_FunctionCall("f", [i \in 1..b |-> Lit(i)])

ArityError(k) ==
    (IF k.c = 0 THEN "Function f expects " ELSE "Lambda expects ")
        \o ToString(k.a) \o " arguments, got " \o ToString(k.b)

Mismatched == script.family = "arity" /\ script.a # script.b

(* C15: exact arity.  A call of a Function or Lambda of a parameters with   *)
(* b # a arguments is the arity error and leaves the interpreter as it was: *)
(* nothing printed by the body, no frame pushed, in_context unchanged, no   *)
(* parameter bound; at top level and from inside a function body alike.     *)
C15_ExactArity ==
    /\ (Mismatched /\ ReplAfter("arity", 2)) =>
           /\ result = [err |-> ArityError(script), val |-> None]
           /\ stdout = <<>>
           /\ scopes = <<>>
           /\ ~in_context
    /\ (Mismatched /\ ReplAfter("arity", 4)) =>
           /\ result = [err |-> ArityError(script), val |-> None]
           /\ stdout = <<>>
           /\ Len(scopes) = 1
           /\ DOMAIN scopes[1] = {}
    /\ (Mismatched /\ mode = "repl" /\ pc \notin {1, 2}) =>
           evaluate_expr(ArityCallExpr(script.b), interpreter)
               = ExprErr(interpreter, ArityError(script))
    /\ (script.family = "arity" /\ script.a = script.b /\ ReplAfter("arity", 2)) =>
           result.err = "" /\ stdout = <<"7">>

C15_Witness ==
    /\ Mismatched
    /\ ReplAfter("arity", 4)
    /\ script.a = 2
    /\ script.b = 1
    /\ in_context
    /\ result.err = "Function f expects 2 arguments, got 1"

(* the value the call of a "balance" script returns: _p() is 1 *)
BalanceValue(k) ==
    CASE k.c \in {0, 1, 2} -> Number(1)
      [] k.c = 3 -> Number(k.a + 1)
      [] k.c \in {4, 5} -> Number(2)

(* the REPL is about to read a line that calls the callee *)
AtCall == mode = "repl" /\ script.family = "balance" /\ pc \in {3, 6}

(* C18: call protocol balance.  A call of a function, a lambda or a method  *)
(* that completes, returning from inside blocks in a loop or after nested   *)
(* and recursive calls, leaves the scope stack at the depth and in_context  *)
(* at the value they had before the call, at top level and inside a frame   *)
(* alike; and each private call in the body, before and after a nested      *)
(* call, is accepted, so in_context is set throughout the body.             *)
C18_CallProtocolBalance ==
    [][AtCall =>
          /\ result' = Returned(BalanceValue(script))
          /\ Len(scopes') = Len(scopes)
          /\ in_context' = in_context]_vars

C18_Witness ==
    /\ ReplAfter("balance", 6)
    /\ script.c = 3
    /\ script.a = MaxNum
    /\ result = Returned(Number(MaxNum + 1))
    /\ in_context
    /\ Len(scopes) = 1

(* a bound in the frame of outer: the two calls of f print A + 1 and the    *)
(* read of a prints A                                                       *)
FrameIsolation ==
    (script.c = 1 /\ ReplAfter("isolate", 2)) =>
        /\ result.err = ""
        /\ stdout = <<Display(Number(script.a + 1)), Display(Number(script.a + 1)),
                      Display(Number(script.a))>>

(* C19: closure isolation between calls.  With a bound to A when f is       *)
(* created, a call of f whose body assigns a + 1 to a returns A + 1, a      *)
(* second call returns A + 1 again, and a read in the defining scope after  *)
(* the calls yields A; for a global a and for a bound in a call frame.      *)
C19_ClosureIsolation ==
    /\ (script.c = 0 /\ (ReplAfter("isolate", 3) \/ ReplAfter("isolate", 4))) =>
           result = Returned(Number(script.a + 1))
    /\ (script.c = 0 /\ ReplAfter("isolate", 5)) =>
           result = Returned(Number(script.a)) /\ globals["a"] = Number(script.a)
    /\ FrameIsolation


CaptureDone ==
    /\ script.family = "capture"
    /\ ReplAfter("capture", Len(Lines(script))) \/ (mode = "run" /\ pc = 0)

(* C20: frame-local capture.  With a bound to A in the frame of a block or  *)
(* of a call when the function or lambda f is created, and a set to B in    *)
(* that frame afterwards, a call of f from within the frame returns A,      *)
(* while a read of a in the frame yields B.                                 *)
C20_FrameLocalCapture ==
    CaptureDone =>
        /\ result.err = ""
        /\ stdout = <<Display(Number(script.a)), Display(Number(script.b))>>

C20_Witness ==
    /\ CaptureDone
    /\ script.c = 3
    /\ script.a = 1
    /\ script.b = 2
    /\ stdout = <<"1", "2">>

(* what the body of a "return" script prints before its return *)
ReturnPrints(k) == IF k.c = 7 THEN <<"1">> ELSE <<>>

(* the value the call of a "return" script yields *)
ReturnValue(k) == IF k.c \in {6, 7} THEN Value_Null ELSE Number(k.a)

(* C21: return stops the call.  A return executed in a function or method   *)
(* body, directly or inside if, while, for, for-each and blocks, makes the  *)
(* call yield its value, Null for a bare return; nothing after it is run,   *)
(* in the body or in a further turn of a loop, and the frames of the blocks *)
(* around it are popped.  A body without return yields Null.                *)
C21_ReturnStopsCall ==
    ReplAfter("return", 2) =>
        /\ result = Returned(ReturnValue(script))
        /\ stdout = ReturnPrints(script)
                        \o (IF ReturnValue(script) = Value_Null THEN <<>>
                            ELSE <<Display(ReturnValue(script))>>)
        /\ scopes = <<>>
        /\ ~in_context

C21_Witness ==
    /\ ReplAfter("return", 2)
    /\ script.c = 5
    /\ script.b = 1
    /\ script.a = MaxNum
    /\ result = Returned(Number(MaxNum))
    /\ scopes = <<>>

(* the methods the class B of a "lookup" script declares *)
LookupDeclared(k) == IF k.c = 1 THEN {} ELSE IF k.c = 2 THEN {"m"} ELSE {"n"}

Failed(msg) == [err |-> msg, val |-> None]

(* C22: method lookup in the receiver's own class.  With B extends A, the   *)
(* methods map of the class value B holds exactly the methods B declares,   *)
(* that of A and of B's parent exactly A's; calling on an instance of B a   *)
(* method only A declares fails with method-not-found, while a method B     *)
(* declares itself, and A's method on an instance of A, are called.         *)
C22_OwnMethodTable ==
    /\ ReplAfter("lookup", 2) =>
           /\ DOMAIN globals["B"].methods = LookupDeclared(script)
           /\ DOMAIN globals["A"].methods = {"m"}
           /\ globals["B"].parent = Some(globals["A"])
    /\ ReplAfter("lookup", 4) =>
           result = CASE script.c \in {0, 1} -> Failed("Method 'm' not found on class 'B'")
                      [] script.c = 2 -> Returned(Number(script.b))
                      [] script.c = 3 -> Returned(Number(script.a))

C22_Witness ==
    /\ ReplAfter("lookup", 4)
    /\ script.c = 0
    /\ script.a = 1
    /\ script.b = MaxNum
    /\ DOMAIN globals["B"].methods = {"n"}
    /\ result.err = "Method 'm' not found on class 'B'"

(* the properties of o after o.f(7) in a "fold" script *)
FoldExpected(k) ==
    LET x == IF k.c = 1 THEN k.a ELSE k.b
        kept == insert(insert(HashMap_new, "x", Number(x)), "y", Number(0))
    IN  IF k.c = 0 THEN insert(kept, "z", Number(7)) ELSE kept

(* C23: method fold-back.  After a method call on a receiver held in a      *)
(* variable, the object in that variable has the properties it had before   *)
(* the call overridden by the bindings of the method's frame at exit,       *)
(* `this` and the parameters excepted: x = B on a property persists, the    *)
(* new name z becomes a property, y keeps its value, even when a parameter  *)
(* is named y, and neither this, the parameter nor a name of an inner block *)
(* becomes a property.                                                      *)
C23_MethodFoldBack ==
    /\ ReplAfter("fold", 2) =>
           globals["o"] = Value_Object("C", insert(insert(HashMap_new, "x", Number(script.a)),
                                                   "y", Number(0)))
    /\ ReplAfter("fold", 3) =>
           /\ result.err = ""
           /\ globals["o"] = Value_Object("C", FoldExpected(script))

C23_Witness ==
    /\ ReplAfter("fold", 3)
    /\ script.c = 0
    /\ script.a = 0
    /\ script.b = MaxNum
    /\ DOMAIN globals["o"].properties = {"x", "y", "z"}
    /\ globals["o"].properties["x"] = Number(MaxNum)

(* the line of a "receiver" script that calls the method or assigns the     *)
(* property is about to be read                                             *)
AtReceiver == mode = "repl" /\ script.family = "receiver" /\ pc = 4

(* C24: receiver persistence.  A method call or a property assignment whose *)
(* receiver is a variable rebinds that variable to the updated object, in   *)
(* globals or in the frame that holds it; with any other receiver, as in    *)
(* new C().f(), d.i.x = B and d.i.f(), no binding of globals or of a frame  *)
(* changes.                                                                 *)
C24_ReceiverPersistence ==
    [][AtReceiver =>
        /\ result'.err = ""
        /\ scopes' = scopes
        /\ globals' = IF script.c \in {0, 1}
                      THEN insert(globals, "o", Value_Object("C",
                               insert(globals["o"].properties, "x", Number(script.b))))
                      ELSE globals
        /\ stdout' = stdout \o (CASE script.c \in {1, 3} -> <<ToString(script.b)>>
                                  [] script.c = 5 -> <<ToString(script.a)>>
                                  [] script.c = 6 -> <<ToString(script.b)>>
                                  [] OTHER -> <<>>)]_vars

C24_Witness ==
    /\ ReplAfter("receiver", 4)
    /\ script.c = 3
    /\ script.a = 0
    /\ script.b = MaxNum
    /\ result = Returned(Number(MaxNum))
    /\ globals["d"].properties["i"].properties["x"] = Number(0)

(* the default of p is the value v had when the class was declared, for     *)
(* the object made before v = B and for the one made after it               *)
DeclarationTimeDefaults ==
    ReplAfter("fresh", 5) =>
        /\ globals["n"].properties["p"] = Number(script.a)
        /\ globals["o"].properties["p"] = Number(script.a)

(* C25: default properties evaluated at each construction.  With p = v      *)
(* declared in class C while v = A, and v = B assigned before o = new C(),  *)
(* the p of o is B, the value of v at the construction, and differs from    *)
(* the p of n, constructed before the assignment, when A and B differ.      *)
C25_FreshDefaultProperties ==
    ReplAfter("fresh", 5) =>
        /\ globals["o"].properties["p"] = Number(script.b)
        /\ script.a # script.b => globals["n"].properties["p"] # globals["o"].properties["p"]

(* the construction of a "ctor" script is about to be read *)
AtConstruction == mode = "repl" /\ script.family = "ctor" /\ pc = 2

(* C26: constructor arguments have no effect.  Whatever the arguments of    *)
(* new C(args), none, a number, an undefined variable, a division by zero   *)
(* or an assignment, the construction succeeds, binds o to the object with  *)
(* the defaults of C, and changes nothing else of the interpreter.          *)
C26_ConstructorArgumentsIgnored ==
    [][AtConstruction =>
        /\ result'.err = ""
        /\ globals' = insert(globals, "o",
                             Value_Object("C", insert(HashMap_new, "x", Number(script.a))))
        /\ scopes' = scopes
        /\ in_context' = in_context
        /\ stdout' = stdout]_vars

C26_Witness ==
    /\ ReplAfter("ctor", 2)
    /\ script.c = 4
    /\ script.a = MaxNum
    /\ result.err = ""
    /\ DOMAIN globals["o"].properties = {"x"}
    /\ ~contains_key(globals, "g")

(* the operand words that denote a truthy value *)
Truthy(w) == w \in {Num("1"), Str("a"), K("True")}

Bound(name, v) == contains_key(globals, name) /\ globals[name] = v

(* C27: no short-circuit.  X && Y and X || Y evaluate X, then Y, whatever   *)
(* X is, and yield the Boolean conjunction or disjunction of the operands'  *)
(* truthiness: both calls are made, the right one after the left one, and   *)
(* an error in the right operand is raised even when the left one decides   *)
(* the result.                                                              *)
C27_NoShortCircuit ==
    ReplAfter("logic", 4) =>
        LET X == LogicOperands[script.a]
            Y == LogicOperands[script.b]
            both == IF script.c % 2 = 0 THEN Truthy(X) /\ Truthy(Y) ELSE Truthy(X) \/ Truthy(Y)
        IN  /\ script.c \in {0, 1} =>
                   /\ result = Returned(Value_Boolean(both))
                   /\ Bound("g", Number(1))
                   /\ Bound("h", Number(2))
            /\ script.c \in {2, 3} =>
                   /\ result = Failed("Undefined variable: u")
                   /\ Bound("g", Number(1))
            /\ script.c \in {4, 5} =>
                   /\ result = Failed("Undefined variable: u")
                   /\ Bound("h", Number(0))

C27_Witness ==
    /\ ReplAfter("logic", 4)
    /\ script.c = 0
    /\ LogicOperands[script.a] = K("False")
    /\ LogicOperands[script.b] = Num("1")
    /\ result = Returned(Value_Boolean(FALSE))
    /\ Bound("h", Number(2))

(* for the scalar values v == v is true and v != v is false; for arrays and *)
(* objects v == v is false and v != v is true                               *)
EqualityOfScalars ==
    /\ ReplAfter("equal", 3) => result = Returned(Value_Boolean(IsScalar(script.a)))
    /\ ReplAfter("equal", 4) => result = Returned(Value_Boolean(~IsScalar(script.a)))

(* C28: structural equality.  For every value v, arrays and objects         *)
(* included, v == v is true, and v != v, its negation, is false.            *)
C28_StructuralEquality ==
    /\ ReplAfter("equal", 3) => result = Returned(Value_Boolean(TRUE))
    /\ ReplAfter("equal", 4) => result = Returned(Value_Boolean(FALSE))

(* the array map returns for the elements es under the callbacks x + 1 and  *)
(* g = x                                                                    *)
Mapped(es, c) ==
    Value_Array([i \in 1..Len(es) |-> Number(IF c = 0 THEN es[i] + 1 ELSE es[i])])

MapRejection(c) ==
    IF c = 2 THEN "map callback expects 1 parameter"
    ELSE "map expects a function as second argument"

(* on an array that is not empty: the lambda of one parameter is applied    *)
(* from left to right, the results in order; any other callback is an error *)
MapOnElements ==
    (ReplAfter("map", 3) /\ script.b # 0) =>
        LET es == MapElements(script.a, script.b)
        IN  /\ script.c \in {0, 1} => result = Returned(Mapped(es, script.c))
            /\ script.c = 1 => Bound("g", Number(es[Len(es)]))
            /\ script.c \in {2, 3, 4} => result = Failed(MapRejection(script.c))

(* C29: map contract.  map(v, f) with f a lambda of one parameter applies f *)
(* to the elements from left to right and returns the array of the results, *)
(* of the length of v; with any other f, a lambda of two parameters, a      *)
(* number or a declared function, it is an error, for every array, the      *)
(* empty one included.                                                      *)
C29_MapContract ==
    ReplAfter("map", 3) =>
        LET es == MapElements(script.a, script.b)
        IN  /\ script.c \in {0, 1} => result = Returned(Mapped(es, script.c))
            /\ (script.c = 1 /\ es # <<>>) => Bound("g", Number(es[Len(es)]))
            /\ script.c \in {2, 3, 4} => result.err # ""

(* the callback of map runs with the flag of map's caller: from top level   *)
(* the private call in its body is rejected and the frame of the callback   *)
(* is left on the stack; called directly, or by map from within a function, *)
(* the body runs with the flag set                                          *)
ContextOfCaller ==
    ReplAfter("context", 5) =>
        /\ ~in_context
        /\ script.c = 0 => result = Returned(Number(script.a)) /\ scopes = <<>>
        /\ script.c = 1 =>
               /\ result = Failed("Cannot call private function '_p' from outside context")
               /\ Len(scopes) = 1
        /\ script.c = 2 => result = Returned(Value_Array(<<Number(script.a)>>)) /\ scopes = <<>>

(* C30: lambda bodies run in context.  The body of a lambda is evaluated    *)
(* with the context flag set, when the lambda is called and when map        *)
(* applies it, from top level or from a function, so that its call of the   *)
(* private function _p is permitted; the flag is back to false afterwards.  *)
C30_LambdaBodyInContext ==
    ReplAfter("context", 5) =>
        /\ ~in_context
        /\ result = Returned(IF script.c = 0 THEN Number(script.a)
                             ELSE Value_Array(<<Number(script.a)>>))

(* C31: filter dispatch gap.  filter is bound in globals to a native         *)
(* function of arity 2; called with two arguments it evaluates both, the    *)
(* left one first, and fails with the unknown-builtin error; called with    *)
(* any other number of arguments it fails with the arity error; no call     *)
(* yields a value.                                                          *)
C31_FilterDispatchGap ==
    /\ (script.family = "filter" /\ pc = 1) =>
           Bound("filter", Value_NativeFunction("filter", 2))
    /\ ReplAfter("filter", 4) =>
           /\ Bound("filter", Value_NativeFunction("filter", 2))
           /\ result = Failed(IF script.b = 2 THEN "Unknown builtin function: filter"
                              ELSE "Native function filter expects 2 arguments, got "
                                   \o ToString(script.b))
           /\ Bound("g", Number(IF script.b >= 1 THEN 1 ELSE 0))
           /\ Bound("h", Number(IF script.b >= 2 THEN 2 ELSE 0))

C31_Witness ==
    /\ ReplAfter("filter", 4)
    /\ script.b = 2
    /\ script.a = MaxNum
    /\ result.err = "Unknown builtin function: filter"
    /\ Bound("h", Number(2))

(* C36: dynamic fall-through of name lookup.  A function or lambda whose    *)
(* body names x, which is neither its parameter nor in its closure, reads   *)
(* and by assignment changes the x of the frame of its caller: with x = A   *)
(* in the caller, w makes it A + 1 and r then reads A + 1; x never reaches  *)
(* the globals, and called from top level r and w find no x.                *)
C36_DynamicFallThrough ==
    ReplAfter("dynamic", 4) =>
        /\ ~contains_key(globals, "x")
        /\ script.c \in {0, 3} =>
               /\ result = Returned(Number(2 * script.a + 2))
               /\ scopes = <<>>
        /\ script.c \in {1, 2} => result = Failed("Undefined variable: x")

C36_Witness ==
    /\ ReplAfter("dynamic", 4)
    /\ script.c = 0
    /\ script.a = MaxNum
    /\ result = Returned(Number(2 * MaxNum + 2))
    /\ globals["r"].closure = HashMap_new

Unbound(name) == ~contains_key(globals, name)

(* C37: assignment to an unbound name.  Inside a function, x = A as a       *)
(* statement binds x in the frame of the call, and the assignment u = A     *)
(* inside an expression binds u in the globals: after the calls u is a      *)
(* global and x and y are not, and a call that fails leaves x and y, not u, *)
(* in its frame.                                                            *)
C37_ExpressionAssignGlobal ==
    /\ (ReplAfter("assign", 3) /\ script.c = 0) =>
           /\ result = Returned(Number(script.a))
           /\ Unbound("x") /\ Unbound("u")
    /\ (ReplAfter("assign", 4) /\ script.c = 0) =>
           /\ result = Returned(Number(2 * script.a))
           /\ Bound("u", Number(script.a))
           /\ Unbound("x") /\ Unbound("y")
    /\ (ReplAfter("assign", 2) /\ script.c = 1) =>
           /\ result = Failed("Undefined variable: q")
           /\ Bound("u", Number(script.a))
           /\ Unbound("x") /\ Unbound("y")
           /\ scopes = << [name \in {"x", "y"} |-> Number(script.a)] >>

C37_Witness ==
    /\ ReplAfter("assign", 2)
    /\ script.c = 1
    /\ script.a = MaxNum
    /\ Len(scopes) = 1
    /\ DOMAIN scopes[1] = {"x", "y"}
    /\ Bound("u", Number(MaxNum))

AfterNested(c) == ReplAfter("nested", 3) /\ script.c = c

(* the x of the object the variable o holds *)
NestedX == globals["o"].properties["x"]

(* g called on this folds x = B into the `this` of the frame of f, whose    *)
(* own x is still A; at the exit of f that x is folded into o: o.x is A     *)
(* after o.f() and B after o.g()                                            *)
NestedAssignmentLost ==
    /\ AfterNested(0) => result.err = "" /\ scopes = <<>> /\ NestedX = Number(script.a)
    /\ AfterNested(1) => result.err = "" /\ scopes = <<>> /\ NestedX = Number(script.b)

(* C38: nested method calls.  When the method f calls this.g() and g        *)
(* assigns B to the property x, the object held in the receiver variable o  *)
(* has x = B after o.f() has returned.                                      *)
C38_NestedMethodCalls ==
    AfterNested(0) => result.err = "" /\ NestedX = Number(script.b)

(* the properties new C() is to have: the defaults of B under those of C *)
ChainExpected(k) ==
    insert(insert(HashMap_new, "y", Number(IF k.c = 1 THEN k.a ELSE k.b)), "z", Number(k.a))

(* C39: single-level property inheritance.  With C extends B and B extends  *)
(* A, new C() has the defaults B declares and those C declares, C's value   *)
(* where both declare the name, and none of the properties only A declares: *)
(* o.x is not found.                                                        *)
C39_SingleLevelInheritance ==
    /\ ReplAfter("chain", 4) =>
           /\ result.err = ""
           /\ globals["C"].parent = Some(globals["B"])
           /\ globals["B"].parent = Some(globals["A"])
           /\ DOMAIN globals["A"].default_properties = {"x", "w"}
           /\ globals["o"] = Value_Object("C", ChainExpected(script))
    /\ ReplAfter("chain", 5) => result = Failed("Property 'x' not found on object")

C39_Witness ==
    /\ ReplAfter("chain", 5)
    /\ script.c = 0
    /\ script.a = 0
    /\ script.b = MaxNum
    /\ DOMAIN globals["o"].properties = {"y", "z"}
    /\ globals["C"].parent[1].parent[1].default_properties["x"] = Number(0)

AfterPad == ReplAfter("pad", 3)

(* the u of the call stands where a parameter takes its value *)
PadReadsUndefined == script.c = 1 /\ script.b < 2

(* the object o with x and y as given *)
PadObject(x, y) == Value_Object("C", insert(insert(HashMap_new, "x", x), "y", y))

(* C40: method calls do not enforce arity.  f(p, r) called with b = 0..3    *)
(* arguments never fails for their number: a parameter without an argument  *)
(* is Null, and an argument beyond the parameters is not evaluated, be it   *)
(* g = g + 1 or the undefined u; u in the place of a parameter is           *)
(* evaluated and fails.                                                     *)
C40_MethodArityUnchecked ==
    /\ (AfterPad /\ ~PadReadsUndefined) =>
           /\ result.err = ""
           /\ scopes = <<>>
           /\ Bound("g", Number(script.a + (IF script.b > 2 THEN 2 ELSE script.b)))
           /\ Bound("o", PadObject(IF script.b >= 1 THEN Number(script.a + 1) ELSE Value_Null,
                                   IF script.b >= 2 THEN Number(script.a + 2) ELSE Value_Null))
    /\ (AfterPad /\ PadReadsUndefined) =>
           /\ result = Failed("Undefined variable: u")
           /\ Bound("g", Number(script.a + script.b))
           /\ Bound("o", PadObject(Number(0), Number(0)))

C40_Witness ==
    /\ AfterPad
    /\ script.b = 3
    /\ script.c = 1
    /\ script.a = MaxNum
    /\ result.err = ""
    /\ Bound("g", Number(MaxNum + 2))
    /\ globals["o"].properties["y"] = Number(MaxNum + 2)

-----
(* Properties of the parser on its own (ParserSpec).                        *)

ParsedAs(stmt) == parsed.err = "" /\ parsed.node = Program(<<stmt>>)

AtEof == tokens[parsed.current + 1].token_type = "Eof"

(* C3: lambda/group disambiguation.  `(a)` parses as the Variable a,        *)
(* `(a + b)` as a BinaryOp and `(a, b) => a + b` as a Lambda of two         *)
(* parameters, each with the whole text consumed.                           *)
C3_LambdaGroupDisambiguation ==
    (mode = "parse" /\ pc = 0 /\ script.family = "group") =>
        /\ script.a = 1 => ParsedAs(Stmt_Expr(Var("a"))) /\ AtEof
        /\ script.a = 2 => ParsedAs(Stmt_Expr(Expr_BinaryOp(Var("a"), "Add", Var("b")))) /\ AtEof
        /\ script.a = 3 =>
               /\ ParsedAs(Stmt_Expr(Expr_Lambda(<<"a", "b">>,
                                                 Expr_BinaryOp(Var("a"), "Add", Var("b")))))
               /\ AtEof

(* the messages of the parser, before any position *)
ParseMessages ==
    {"Expected '(' after function name", "Expected ')' after parameters",
     "Expected '{' before function body", "Expected '}' after function body",
     "Expected '{' before class body", "Expected '(' after method name",
     "Expected '{' before method body", "Expected '}' after method body",
     "Expected '}' after class body", "Expected '(' after 'if'",
     "Expected ')' after condition", "Expected '(' after 'while'",
     "Expected '(' after 'for'", "Expected ')' after foreach",
     "Expected ';' after for loop initializer", "Expected ';' after for loop condition",
     "Expected ')' after for clauses", "Expected '}' after block",
     "Expected ')' after arguments", "Expected '(' after class name",
     "Expected ')' after expression", "Expected ']' after array elements",
     "Expected '(' after 'match'", "Expected ')' after match expression",
     "Expected '{' before match cases", "Expected '=>' after case pattern",
     "Expected '}' after match cases",
     "Expected function name", "Expected parameter name", "Expected type name after ':'",
     "Expected class name", "Expected parent class name", "Expected method name",
     "Expected property name", "Expected property or method name after '.'",
     "Expected class name after 'new'", "Invalid pattern",
     "Invalid assignment target", "Invalid function call"}
        \cup {"Unexpected token " \o Debug(tokens[i]) : i \in 1..Len(tokens)}

(* the token the parser stopped at *)
Offending == tokens[parsed.current + 1]

(* the error is a message followed by the line and the column of the token *)
Located(tok) ==
    \E message \in ParseMessages :
        parsed.err = message \o " at line " \o ToString(tok.line)
                             \o ", column " \o ToString(tok.column)

Rejected == mode = "parse" /\ pc = 0 /\ parsed.err \notin {"", StackOverflow}

(* C12: parse error contract.  A text the parser rejects gives no program   *)
(* and an error made of a message, the line and the column of the token the *)
(* parser stopped at.                                                       *)
C12_ParseErrorContract == Rejected => parsed.node = <<>> /\ Located(Offending)

(* C10: loop-form disambiguation.  After `for (`, an identifier followed by *)
(* `in` gives a ForEach; otherwise the statement is the three-clause For    *)
(* whose initializer holds the identifier once, and the whole text is       *)
(* consumed.                                                                *)
C10_LoopFormDisambiguation ==
    /\ (mode = "parse" /\ pc = 0 /\ script.family = "for") =>
           /\ ParsedAs(Stmt_For(ForInits[script.a].node, ForConditions[script.b].node,
                                ForIncrements[script.c].node, Stmt_Block(<<>>)))
           /\ AtEof
    /\ (mode = "parse" /\ pc = 0 /\ script.family = "foreach") =>
           /\ ParsedAs(Stmt_ForEach(ForEachNames[script.a], ForEachIterables[script.b].node,
                                    Stmt_Block(<<>>)))
           /\ AtEof

C10_Witness ==
    /\ mode = "parse"
    /\ pc = 0
    /\ script = Key("for", 2, 2, 2)
    /\ parsed.err = ""
    /\ parsed.node.statements[1].init = Some(Stmt_VarDecl("i", Lit(0)))

(* the innermost if of the dangling texts: if (cond) 1 else 2 *)
InnerIf(cond) ==
    Stmt_If(Var(cond), Stmt_Expr(Lit(1)), Some(Stmt_Expr(Lit(2))))

(* C32: dangling else.  In nested if statements without braces an else      *)
(* belongs to the nearest if that has none: the outer If of                 *)
(* `if (c) if (d) 1 else 2` has no else branch, at any depth of nesting,    *)
(* and a second else goes to the next if outwards.                          *)
C32_DanglingElse ==
    (mode = "parse" /\ pc = 0 /\ script.family = "dangling") =>
        /\ AtEof
        /\ script.a = 1 => ParsedAs(Stmt_If(Var("c"), InnerIf("d"), None))
        /\ script.a = 2 =>
               ParsedAs(Stmt_If(Var("c"), Stmt_If(Var("d"), InnerIf("e"), None), None))
        /\ script.a = 3 =>
               ParsedAs(Stmt_If(Var("c"), InnerIf("d"), Some(Stmt_Expr(Lit(3)))))
        /\ script.a = 4 =>
               ParsedAs(Stmt_If(Var("c"), Stmt_While(Var("d"), InnerIf("e")), None))
        /\ script.a = 5 =>
               ParsedAs(Stmt_If(Var("c"),
                                Stmt_Block(<<Stmt_If(Var("d"), Stmt_Expr(Lit(1)), None)>>),
                                Some(Stmt_Expr(Lit(2)))))

C32_Witness ==
    /\ mode = "parse"
    /\ pc = 0
    /\ script = Key("dangling", 1, 0, 0)
    /\ parsed.err = ""
    /\ parsed.node.statements[1].else_branch = None
    /\ parsed.node.statements[1].then_branch.else_branch = Some(Stmt_Expr(Lit(2)))

AtThunk(a) == mode = "parse" /\ pc = 0 /\ script = Key("thunk", a, 0, 0)

(* primary takes `(` for a lambda only when an identifier follows: `()` is  *)
(* read as a group, and the text is rejected at its `)`                     *)
ThunkRejected ==
    /\ AtThunk(1) =>
           /\ parsed.node = <<>>
           /\ parsed.current = 1
           /\ parsed.err = "Unexpected token " \o Debug(tokens[2]) \o " at line 1, column "
                               \o ToString(tokens[2].column)
    /\ AtThunk(2) =>
           /\ parsed.node = <<>>
           /\ parsed.current = 3
           /\ parsed.err = "Unexpected token " \o Debug(tokens[4]) \o " at line 1, column "
                               \o ToString(tokens[4].column)
    /\ AtThunk(3) => ParsedAs(Stmt_Expr(Expr_Lambda(<<"x">>, Lit(1)))) /\ AtEof

(* C33: zero-parameter lambda.  `() => 1` parses as a Lambda of no          *)
(* parameter whose body is 1, alone and as the value of a declaration.      *)
C33_ZeroParameterLambda ==
    /\ AtThunk(1) => ParsedAs(Stmt_Expr(Expr_Lambda(<<>>, Lit(1))))
    /\ AtThunk(2) => ParsedAs(Stmt_VarDecl("f", Expr_Lambda(<<>>, Lit(1))))

(* Parser::parse has been applied to the text *)
ParseDone == mode = "parse" /\ pc = 0

(* the recursion that does not end is the one primary starts when it resets *)
(* the cursor to a `(` that an identifier follows: expression is entered    *)
(* again at that `(`, where the cursor stays                                 *)
ReentryAtParen ==
    (ParseDone /\ parsed.err = StackOverflow) =>
        /\ parsed.node = <<>>
        /\ Offending.token_type = "LeftParen"
        /\ tokens[parsed.current + 2].token_type = "Identifier"

(* C34: parser termination.  Parser::parse returns a Program or a parse    *)
(* error on every text: no descent goes on without consuming a token.       *)
C34_ParserTermination ==
    ParseDone =>
        \/ parsed.err = "" /\ parsed.node # <<>>
        \/ parsed.err \notin {"", StackOverflow} /\ parsed.node = <<>>

(* the positions a token stream has: 0 up to that of the end marker *)
Positions == 0..(Len(tokens) - 1)

(* the cursor had been at position `at` before its i-th move *)
VisitedBefore(i, at) == \E j \in 1..(i - 1) : parsed.trail[j].at = at

(* C35: parser cursor bounds.  Throughout a parse the cursor is a position  *)
(* of the token stream; advance goes one token forward and never leaves the *)
(* end marker, so that the previous token it reads exists; a reset of the   *)
(* cursor goes to a position the cursor has been at.                        *)
C35_CursorBounds ==
    ParseDone =>
        /\ parsed.current \in Positions
        /\ parsed.current = parsed.trail[Len(parsed.trail)].at
        /\ \A i \in 1..Len(parsed.trail) :
               LET move == parsed.trail[i]
               IN  /\ move.at \in Positions
                   /\ move.by = "new" => i = 1 /\ move.at = 0
                   /\ move.by = "advance" =>
                          /\ move.at = parsed.trail[i - 1].at + 1
                          /\ tokens[move.at].token_type # "Eof"
                   /\ move.by = "stay" => move.at = parsed.trail[i - 1].at /\ move.at >= 1
                   /\ move.by = "reset" => VisitedBefore(i, move.at)

C35_Witness ==
    /\ ParseDone
    /\ script = Key("for", 2, 2, 2)
    /\ parsed.err = ""
    /\ parsed.current = Len(tokens) - 1
    /\ \E i \in 1..Len(parsed.trail) :
           /\ parsed.trail[i] = Move("reset", 2)
           /\ parsed.trail[i - 1] = Move("advance", 3)

----------------------------------------------------------------------------
(* Properties of the lexer on its own (LexerSpec).                          *)

(* tokenize has returned *)
Returns == mode = "lex" /\ pc = 0

(* tokenize has returned Ok(tokens) *)
Tokenized == Returns /\ result.err = ""

EndsInEof ==
    /\ tokens # <<>>
    /\ tokens[Len(tokens)].token_type = "Eof"
    /\ \A i \in 1..(Len(tokens) - 1) : tokens[i].token_type # "Eof"

(* C16: token stream termination.  Whenever tokenize succeeds, the token    *)
(* list is not empty, its last token is Eof and no other token is Eof; and  *)
(* on every input tokenize returns.                                         *)
C16_TokenStreamTermination == [](Tokenized => EndsInEof) /\ <>Returns

C16_Witness ==
    /\ Tokenized
    /\ script.family = "chars"
    /\ Len(tokens) = 3
    /\ tokens[3].line = 2
    /\ EndsInEof

(* the characters of a word as one string *)
RECURSIVE spelled(_, _)
spelled(chars, i) == IF i > Len(chars) THEN "" ELSE chars[i] \o spelled(chars, i + 1)

(* a word of letters, digits and underscores that does not start with a digit *)
identifier_shaped(chars) ==
    /\ chars # <<>>
    /\ \A i \in 1..Len(chars) : is_alphanumeric(chars[i]) \/ chars[i] = "_"
    /\ ~is_ascii_digit(chars[1])

(* the tokens of an input that is one word *)
OneWord(token_type, text, chars) ==
    <<Token(token_type, text, 1, 1), Token("Eof", "", 1, Len(chars) + 1)>>

(* C17: keyword recognition.  Each of the 15 reserved words scans to its    *)
(* own keyword token, and any other word of letters, digits and underscores *)
(* that does not start with a digit scans to an Identifier with the word as *)
(* its text.                                                                *)
C17_KeywordRecognition ==
    /\ Len(ReservedWords) = 15
    /\ (Returns /\ script.family = "reserved") =>
           /\ result.err = ""
           /\ tokens = OneWord(ReservedWords[script.a].token_type, "",
                               ReservedWords[script.a].chars)
    /\ (Returns /\ script.family = "word") =>
           /\ result.err = ""
           /\ tokens = OneWord("Identifier", OtherWords[script.a].text,
                               OtherWords[script.a].chars)
    /\ (Returns /\ script.family = "chars" /\ identifier_shaped(Source(script))) =>
           /\ result.err = ""
           /\ tokens = OneWord("Identifier", spelled(Source(script), 1), Source(script))
    /\ (Returns /\ script.family = "phrase" /\ script.a = 1) =>
           [i \in 1..Len(tokens) |-> tokens[i].token_type]
               = <<"Func", "Return", "Match", "Case", "Eof">>
    /\ (Returns /\ script.family = "phrase" /\ script.a = 2) =>
           [i \in 1..Len(tokens) |-> <<tokens[i].token_type, tokens[i].text>>]
               = << <<"Identifier", "greeting">>, <<"Identifier", "count">>, <<"Eof", "">> >>

C17_Witness ==
    /\ Returns
    /\ script.family = "reserved"
    /\ tokens[1] = Token("Extends", "", 1, 1)
    /\ tokens[2] = Token("Eof", "", 1, 8)

====
